---- MODULE Spec2Model ----
(***************************************************************************)
(* Verification model of the datapacker header (include/datapacker.h):     *)
(* the byte-order aware integer codec and the length-prefixed container    *)
(* codec built on it.                                                      *)
(*                                                                         *)
(* Data representation.                                                    *)
(*   - A byte buffer is a sequence of bytes 0..255; the C index k is the   *)
(*     sequence index k + 1, and a pointer `buffer + off` is the pair      *)
(*     (buffer, off).                                                      *)
(*   - An integer type is a record [size, signed]; size is sizeof(T).      *)
(*   - An integer value of a type is the sequence of its base-65536 digits *)
(*     ("limbs"), least significant first, as many as the type has 16-bit  *)
(*     halves (one limb for the 1- and 2-byte types).  The number it       *)
(*     stands for is  SUM limb[i] * 65536^(i-1).  For a signed type the    *)
(*     most significant limb is signed (-32768..32767, or -128..127 for    *)
(*     int8_t), for an unsigned type it is 0..65535 (0..255 for uint8_t).  *)
(*     For the 1- and 2-byte types the single limb IS the C++ value.       *)
(*     Limbs are needed because the model checker's integers are 32 bits   *)
(*     wide and the program's are up to 64.                                *)
(*   - The platform is LP64 with two's complement integers: int is 32      *)
(*     bits, size_t is an unsigned 64-bit type.                            *)
(***************************************************************************)
EXTENDS Integers, Sequences, FiniteSets, TLC

VARIABLES buffer, call, enc, fill, maxw, nenc

vars == <<buffer, call, enc, fill, maxw, nenc>>

(***************************************************************************)
(* Bounds of the model                                                     *)
(***************************************************************************)
\* largest element count of an array / container handled by the harness
MaxLen == 2
\* bytes of the buffer beyond the largest message, to observe overruns
Slack == 2
\* number of single-value encodes the integer harness makes on one buffer
MaxEncodes == 2

\* the buffer of the container harness: room for a size_t prefix and MaxLen
\* 8-byte elements
BufLen == 8 + 8 * MaxLen + Slack

(***************************************************************************)
(* Types                                                                   *)
(***************************************************************************)
int8_t   == [size |-> 1, signed |-> TRUE]
uint8_t  == [size |-> 1, signed |-> FALSE]
int16_t  == [size |-> 2, signed |-> TRUE]
uint16_t == [size |-> 2, signed |-> FALSE]
int32_t  == [size |-> 4, signed |-> TRUE]
uint32_t == [size |-> 4, signed |-> FALSE]
int64_t  == [size |-> 8, signed |-> TRUE]
uint64_t == [size |-> 8, signed |-> FALSE]

IntTypes == {int8_t, uint8_t, int16_t, uint16_t, int32_t, uint32_t, int64_t, uint64_t}

\* enum class endian { little = 0, big = 1 }
endian == {"little", "big"}

default_endianness == "little"

\* std::make_unsigned_t<T>
make_unsigned_t(T) == [size |-> T.size, signed |-> FALSE]

\* number of limbs of a value of type T
NLimbs(T) == IF T.size <= 2 THEN 1 ELSE T.size \div 2

\* number of values of one limb of T: 2^8 for the 1-byte types, else 2^16
LimbMod(T) == IF T.size = 1 THEN 256 ELSE 65536

\* the value 0 of type T
Zero(T) == [i \in 1..NLimbs(T) |-> 0]

\* TRUE iff v (of type T) is negative
IsNegative(T, v) == v[NLimbs(T)] < 0

(***************************************************************************)
(* C++ integer operators on limb values                                    *)
(***************************************************************************)
\* static_cast<uint8_t>((value >> s) & 0xFF), s a multiple of 8 below the
\* width of T.  The right shift of a negative value is arithmetic (floor
\* division by 2^s); bits s..s+7 of the value are bits (s % 16)..(s % 16)+7 of
\* limb s \div 16.
ShiftRightByte(T, value, s) ==
    IF s % 16 = 0
    THEN value[(s \div 16) + 1] % 256
    ELSE (value[(s \div 16) + 1] \div 256) % 256

\* a | b on two naturals below 2^8, bit by bit
RECURSIVE ByteOr(_, _)
ByteOr(a, b) ==
    IF a = 0 THEN b
    ELSE IF b = 0 THEN a
    ELSE (IF a % 2 = 1 \/ b % 2 = 1 THEN 1 ELSE 0) + 2 * ByteOr(a \div 2, b \div 2)

\* a | b on two naturals below 2^16, byte by byte
BitOr(a, b) ==
    IF a = 0 THEN b
    ELSE IF b = 0 THEN a
    ELSE 256 * ByteOr(a \div 256, b \div 256) + ByteOr(a % 256, b % 256)

\* val | w on two values of the unsigned type uT (val |= w)
Or(uT, val, w) == [i \in 1..NLimbs(uT) |-> BitOr(val[i], w[i])]

\* a byte widened through a signed char: a byte >= 128 fills the higher-order
\* bits of the result with ones
WidenSigned(uT, b) ==
    [i \in 1..NLimbs(uT) |->
        IF b < 128 THEN (IF i = 1 THEN b ELSE 0)
        ELSE IF NLimbs(uT) = 1 THEN b
        ELSE IF i = 1 THEN 65280 + b ELSE 65535]

\* static_cast<uT>(b) of a buffer byte b
Widen(uT, b) == [i \in 1..NLimbs(uT) |-> IF i = 1 THEN b ELSE 0]

\* static_cast<uT>(val << s) on a value of the unsigned type uT, s a multiple
\* of 8: bits shifted beyond the width of uT are dropped
Shl(uT, val, s) ==
    LET q == s \div 16
        r == s % 16
        src(j) == IF j >= 1 /\ j <= NLimbs(uT) THEN val[j] ELSE 0
    IN [i \in 1..NLimbs(uT) |->
            IF r = 0 THEN src(i - q)
            ELSE ((src(i - q) * 256) % LimbMod(uT)) + (src(i - q - 1) \div 256)]

\* static_cast<T>(val) of a value of make_unsigned_t<T>: the same bit pattern
\* read as a T (two's complement)
CastToT(T, val) ==
    [i \in 1..NLimbs(T) |->
        IF T.signed /\ i = NLimbs(T) /\ val[i] >= LimbMod(T) \div 2
        THEN val[i] - LimbMod(T)
        ELSE val[i]]

(***************************************************************************)
(* Integer codec                                                           *)
(***************************************************************************)
\* buffer[k] += b instead of buffer[k] = b
StoreAdded(buf, off, k, b) == [buf EXCEPT ![off + k + 1] = (@ + b) % 256]

\* buffer[k] = b, on the pointer buffer + off
Store(buf, off, k, b) == [buf EXCEPT ![off + k + 1] = b]

\* buffer[k], on the pointer buffer + off
Load(buf, off, k) == buf[off + k + 1]

\* encode_be with the shifts of buffer[2] and buffer[3] exchanged
encode_be_swapped(buf, off, T, value) ==
    LET n  == T.size
        b0 == Store(buf, off, 0, ShiftRightByte(T, value, 8 * n - 8))
        b1 == IF n >= 2
              THEN Store(b0, off, 1, ShiftRightByte(T, value, 8 * n - 16))
              ELSE b0
        b3 == IF n >= 4
              THEN Store(Store(b1, off, 2, ShiftRightByte(T, value, 8 * n - 32)),
                         off, 3, ShiftRightByte(T, value, 8 * n - 24))
              ELSE b1
        b7 == IF n >= 8
              THEN Store(Store(Store(Store(b3,
                         off, 4, ShiftRightByte(T, value, 8 * n - 40)),
                         off, 5, ShiftRightByte(T, value, 8 * n - 48)),
                         off, 6, ShiftRightByte(T, value, 8 * n - 56)),
                         off, 7, ShiftRightByte(T, value, 8 * n - 64))
              ELSE b3
    IN b7

\* encode_be<T>(buffer + off, value): the buffer afterwards
encode_be(buf, off, T, value) ==
    LET n  == T.size
        b0 == Store(buf, off, 0, ShiftRightByte(T, value, 8 * n - 8))
        b1 == IF n >= 2
              THEN Store(b0, off, 1, ShiftRightByte(T, value, 8 * n - 16))
              ELSE b0
        b3 == IF n >= 4
              THEN Store(Store(b1, off, 2, ShiftRightByte(T, value, 8 * n - 24)),
                         off, 3, ShiftRightByte(T, value, 8 * n - 32))
              ELSE b1
        b7 == IF n >= 8
              THEN Store(Store(Store(Store(b3,
                         off, 4, ShiftRightByte(T, value, 8 * n - 40)),
                         off, 5, ShiftRightByte(T, value, 8 * n - 48)),
                         off, 6, ShiftRightByte(T, value, 8 * n - 56)),
                         off, 7, ShiftRightByte(T, value, 8 * n - 64))
              ELSE b3
    IN b7

\* encode_le without the `if constexpr (sizeof(T) >= 2)` guard of buffer[1]
encode_le_noguard(buf, off, T, value) ==
    LET n  == T.size
        b0 == Store(buf, off, 0, ShiftRightByte(T, value, 0))
        b1 == Store(b0, off, 1,
                    IF n >= 2 THEN ShiftRightByte(T, value, 8)
                    ELSE IF IsNegative(T, value) THEN 255 ELSE 0)
        b3 == IF n >= 4
              THEN Store(Store(b1, off, 2, ShiftRightByte(T, value, 16)),
                         off, 3, ShiftRightByte(T, value, 24))
              ELSE b1
        b7 == IF n >= 8
              THEN Store(Store(Store(Store(b3,
                         off, 4, ShiftRightByte(T, value, 32)),
                         off, 5, ShiftRightByte(T, value, 40)),
                         off, 6, ShiftRightByte(T, value, 48)),
                         off, 7, ShiftRightByte(T, value, 56))
              ELSE b3
    IN b7

\* encode_le<T>(buffer + off, value): the buffer afterwards
encode_le(buf, off, T, value) ==
    LET n  == T.size
        b0 == Store(buf, off, 0, ShiftRightByte(T, value, 0))
        b1 == IF n >= 2
              THEN Store(b0, off, 1, ShiftRightByte(T, value, 8))
              ELSE b0
        b3 == IF n >= 4
              THEN Store(Store(b1, off, 2, ShiftRightByte(T, value, 16)),
                         off, 3, ShiftRightByte(T, value, 24))
              ELSE b1
        b7 == IF n >= 8
              THEN Store(Store(Store(Store(b3,
                         off, 4, ShiftRightByte(T, value, 32)),
                         off, 5, ShiftRightByte(T, value, 40)),
                         off, 6, ShiftRightByte(T, value, 48)),
                         off, 7, ShiftRightByte(T, value, 56))
              ELSE b3
    IN b7

\* decode_le with buffer[3] shifted by 16 instead of 24
decode_le_shift16(buf, off, T) ==
    LET n  == T.size
        uT == make_unsigned_t(T)
        v0 == Or(uT, Zero(uT), Widen(uT, Load(buf, off, 0)))
        v1 == IF n >= 2
              THEN Or(uT, v0, Shl(uT, Widen(uT, Load(buf, off, 1)), 8))
              ELSE v0
        v3 == IF n >= 4
              THEN Or(uT, Or(uT, v1, Shl(uT, Widen(uT, Load(buf, off, 2)), 16)),
                          Shl(uT, Widen(uT, Load(buf, off, 3)), 16))
              ELSE v1
        v7 == IF n >= 8
              THEN Or(uT, Or(uT, Or(uT, Or(uT, v3,
                          Shl(uT, Widen(uT, Load(buf, off, 4)), 32)),
                          Shl(uT, Widen(uT, Load(buf, off, 5)), 40)),
                          Shl(uT, Widen(uT, Load(buf, off, 6)), 48)),
                          Shl(uT, Widen(uT, Load(buf, off, 7)), 56))
              ELSE v3
    IN CastToT(T, v7)

\* decode_le<T>(buffer + off, value): the value stored in `value`
decode_le(buf, off, T) ==
    LET n  == T.size
        uT == make_unsigned_t(T)
        v0 == Or(uT, Zero(uT), Widen(uT, Load(buf, off, 0)))
        v1 == IF n >= 2
              THEN Or(uT, v0, Shl(uT, Widen(uT, Load(buf, off, 1)), 8))
              ELSE v0
        v3 == IF n >= 4
              THEN Or(uT, Or(uT, v1, Shl(uT, Widen(uT, Load(buf, off, 2)), 16)),
                          Shl(uT, Widen(uT, Load(buf, off, 3)), 24))
              ELSE v1
        v7 == IF n >= 8
              THEN Or(uT, Or(uT, Or(uT, Or(uT, v3,
                          Shl(uT, Widen(uT, Load(buf, off, 4)), 32)),
                          Shl(uT, Widen(uT, Load(buf, off, 5)), 40)),
                          Shl(uT, Widen(uT, Load(buf, off, 6)), 48)),
                          Shl(uT, Widen(uT, Load(buf, off, 7)), 56))
              ELSE v3
    IN CastToT(T, v7)

\* decode_be<T>(buffer + off, value): the value stored in `value`
decode_be(buf, off, T) ==
    LET n  == T.size
        uT == make_unsigned_t(T)
        step(val, k) == Or(uT, Shl(uT, val, 8), Widen(uT, Load(buf, off, k)))
        v0 == Or(uT, Zero(uT), Widen(uT, Load(buf, off, 0)))
        v1 == IF n >= 2 THEN step(v0, 1) ELSE v0
        v3 == IF n >= 4 THEN step(step(v1, 2), 3) ELSE v1
        v7 == IF n >= 8 THEN step(step(step(step(v3, 4), 5), 6), 7) ELSE v3
    IN CastToT(T, v7)

\* the int returned by the single-value encode_* / decode_* functions
SizeOf(T) == T.size


(***************************************************************************)
(* Real numbers.  A value of type float, double or long double is a record *)
(* [kind, sign, exp, frac]: kind "zero", "inf" and "nan" are the special   *)
(* values; kind "finite" is (-1)^sign * (1 + frac / 2^64) * 2^exp with     *)
(* frac a 64-bit natural in four limbs, least significant first.  A float  *)
(* has the low 41 bits of frac zero, a double the low 12.  long double is  *)
(* the x87 extended type: every float and double is a normal long double,  *)
(* and halving, doubling and subtracting 1.0 are exact on it.  The host    *)
(* stores integers least significant byte first.                           *)
(***************************************************************************)
float  == [size |-> 4, real |-> "float"]
double == [size |-> 8, real |-> "double"]

\* internal::is_float<T> / internal::is_double<T>
is_float(T) == T = float
is_double(T) == T = double

\* the template arguments <bits, expbits> of pack754 / unpack754
binary32 == [bits |-> 32, expbits |-> 8]
binary64 == [bits |-> 64, expbits |-> 11]

\* 2^k
RECURSIVE Pow2(_)
Pow2(k) == IF k = 0 THEN 1 ELSE 2 * Pow2(k - 1)

\* unsigned significandbits = bits - expbits - 1
significandbits(fmt) == fmt.bits - fmt.expbits - 1

\* (1 << (expbits - 1)) - 1
Bias(fmt) == Pow2(fmt.expbits - 1) - 1

NoFrac == <<0, 0, 0, 0>>

RealZero(sign) == [kind |-> "zero", sign |-> sign, exp |-> 0, frac |-> NoFrac]
Infinity(sign) == [kind |-> "inf", sign |-> sign, exp |-> 0, frac |-> NoFrac]
NaN == [kind |-> "nan", sign |-> 0, exp |-> 0, frac |-> NoFrac]
Finite(sign, exp, frac) == [kind |-> "finite", sign |-> sign, exp |-> exp, frac |-> frac]

\* the 64-bit two's complement pattern of a long long x, |x| < 2^31, as a
\* uint64_t
Pattern64(x) ==
    <<x % 65536, (x \div 65536) % 65536,
      IF x < 0 THEN 65535 ELSE 0, IF x < 0 THEN 65535 ELSE 0>>

\* val << s on a 64-bit pattern, 0 <= s < 64: bits shifted beyond bit 63 are
\* dropped
ShlBits(val, s) ==
    LET q == s \div 16
        r == s % 16
        src(j) == IF j >= 1 /\ j <= 4 THEN val[j] ELSE 0
    IN [i \in 1..4 |->
            ((src(i - q) * Pow2(r)) % 65536) + (src(i - q - 1) \div Pow2(16 - r))]

\* val >> s on an unsigned 64-bit pattern, 0 <= s < 64
ShrBits(val, s) ==
    LET q == s \div 16
        r == s % 16
        src(j) == IF j >= 1 /\ j <= 4 THEN val[j] ELSE 0
    IN [i \in 1..4 |->
            (src(i + q) \div Pow2(r)) + ((src(i + q + 1) % Pow2(r)) * Pow2(16 - r))]

\* val & ((1LL << k) - 1): the low k bits of a 64-bit pattern
LowBits(val, k) ==
    [i \in 1..4 |->
        IF 16 * i <= k THEN val[i]
        ELSE IF 16 * (i - 1) >= k THEN 0
        ELSE val[i] % Pow2(k - 16 * (i - 1))]

\* the largest value of `int shift` in the model, above every count a loop
\* that ends reaches (1074); a count beyond it overflows and wraps to the
\* smallest value, as INT_MAX + 1 does on the two's complement hardware
ShiftCap == 1200

(***************************************************************************)
(* pack754.  The state of its two normalisation loops is [fnorm, shift].   *)
(***************************************************************************)
\* while (fnorm >= 2.0)
HalveCond(st) ==
    \/ st.fnorm.kind = "inf"
    \/ st.fnorm.kind = "finite" /\ st.fnorm.exp >= 1

\* fnorm /= 2.0; shift++;  (infinity / 2 is infinity)
HalveStep(st) ==
    [fnorm |-> IF st.fnorm.kind = "finite"
               THEN [st.fnorm EXCEPT !.exp = @ - 1] ELSE st.fnorm,
     shift |-> IF st.shift < ShiftCap THEN st.shift + 1 ELSE -ShiftCap]

\* while (fnorm < 1.0)
DoubleCond(st) == st.fnorm.kind = "finite" /\ st.fnorm.exp < 0

\* fnorm *= 2.0; shift--;
DoubleStep(st) ==
    [fnorm |-> [st.fnorm EXCEPT !.exp = @ + 1],
     shift |-> IF st.shift > -ShiftCap THEN st.shift - 1 ELSE ShiftCap]

\* one more iteration of the first loop if its condition holds
HalveOnce(st) == IF HalveCond(st) THEN HalveStep(st) ELSE st

\* one more iteration of the second loop if its condition holds
DoubleOnce(st) == IF DoubleCond(st) THEN DoubleStep(st) ELSE st

RECURSIVE Halved(_)
\* the state when the first loop has ended, evaluated sixteen iterations at
\* a time; st.fnorm is finite
Halved(st) ==
    IF HalveCond(st)
    THEN Halved(HalveOnce(HalveOnce(HalveOnce(HalveOnce(HalveOnce(HalveOnce(
             HalveOnce(HalveOnce(HalveOnce(HalveOnce(HalveOnce(HalveOnce(
             HalveOnce(HalveOnce(HalveOnce(HalveStep(st)))))))))))))))))
    ELSE st

RECURSIVE Doubled(_)
\* the state when the second loop has ended, evaluated sixteen iterations
\* at a time
Doubled(st) ==
    IF DoubleCond(st)
    THEN Doubled(DoubleOnce(DoubleOnce(DoubleOnce(DoubleOnce(DoubleOnce(
             DoubleOnce(DoubleOnce(DoubleOnce(DoubleOnce(DoubleOnce(
             DoubleOnce(DoubleOnce(DoubleOnce(DoubleOnce(DoubleOnce(
             DoubleStep(st)))))))))))))))))
    ELSE st

\* sign = 1, fnorm = -f if f < 0, else sign = 0, fnorm = f; shift = 0
PackStart(f) == [fnorm |-> [f EXCEPT !.sign = 0], shift |-> 0]

\* Significand that leaves the fraction where it is in the long double
SignificandUnshifted(fmt, fnorm) == fnorm.frac

\* static_cast<long long>(fnorm * (static_cast<float>(1LL << significandbits)
\* + 0.5f)) after fnorm = fnorm - 1.0, for 1.0 <= fnorm < 2.0: the float sum
\* is 2^significandbits (0.5 is below half of its last place), the product
\* frac / 2^(64 - significandbits) is exact and the conversion drops its
\* fractional part
Significand(fmt, fnorm) == ShrBits(fnorm.frac, 64 - significandbits(fmt))

\* the fields put together with the unbiased exponent, exp = shift
PackBitsUnbiased(fmt, sign, shift, significand) ==
    Or(uint64_t,
       Or(uint64_t,
          ShlBits(Pattern64(sign), fmt.bits - 1),
          ShlBits(Pattern64(shift), significandbits(fmt))),
       significand)

\* (sign << (bits - 1)) | (exp << (bits - expbits - 1)) | significand as a
\* uint64_t, with exp = shift + bias.  The shift of a negative exp gives
\* the shifted two's complement pattern (C++20, and what the compilers emit
\* for the earlier standards).
PackBits(fmt, sign, shift, significand) ==
    Or(uint64_t,
       Or(uint64_t,
          ShlBits(Pattern64(sign), fmt.bits - 1),
          ShlBits(Pattern64(shift + Bias(fmt)), significandbits(fmt))),
       significand)

\* the value pack754 returns when its loops have ended in state st
PackResult(fmt, sign, st) ==
    PackBits(fmt, sign, st.shift, Significand(fmt, st.fnorm))

\* pack754<bits, expbits>(f) for a finite f (the loops do not end on an
\* infinity, and the conversion of a NaN significand is undefined)
pack754(fmt, f) ==
    IF f.kind = "zero"
    THEN Zero(uint64_t)
    ELSE PackResult(fmt, f.sign, Doubled(Halved(PackStart(f))))

(***************************************************************************)
(* unpack754.  The state of its two scaling loops is [result, shift].      *)
(***************************************************************************)
\* while (shift > 0)
UpCond(st) == st.shift > 0

\* result *= 2.0; shift--;
UpStep(st) == [result |-> [st.result EXCEPT !.exp = @ + 1], shift |-> st.shift - 1]

\* while (shift < 0)
DownCond(st) == st.shift < 0

\* result /= 2.0; shift++;
DownStep(st) == [result |-> [st.result EXCEPT !.exp = @ - 1], shift |-> st.shift + 1]

UpOnce(st) == IF UpCond(st) THEN UpStep(st) ELSE st

DownOnce(st) == IF DownCond(st) THEN DownStep(st) ELSE st

RECURSIVE ScaledUp(_)
\* the state when the first loop has ended, sixteen iterations at a time
ScaledUp(st) ==
    IF UpCond(st)
    THEN ScaledUp(UpOnce(UpOnce(UpOnce(UpOnce(UpOnce(UpOnce(UpOnce(UpOnce(
             UpOnce(UpOnce(UpOnce(UpOnce(UpOnce(UpOnce(UpOnce(
             UpStep(st)))))))))))))))))
    ELSE st

RECURSIVE ScaledDown(_)
\* the state when the second loop has ended, sixteen iterations at a time
ScaledDown(st) ==
    IF DownCond(st)
    THEN ScaledDown(DownOnce(DownOnce(DownOnce(DownOnce(DownOnce(DownOnce(
             DownOnce(DownOnce(DownOnce(DownOnce(DownOnce(DownOnce(
             DownOnce(DownOnce(DownOnce(DownStep(st)))))))))))))))))
    ELSE st

\* the exponent field taken with a mask one bit too short
ExpFieldShort(fmt, i) == ShrBits(i, significandbits(fmt))[1] % Pow2(fmt.expbits - 1)

\* the exponent field ((i >> significandbits) & ((1LL << expbits) - 1))
ExpField(fmt, i) == ShrBits(i, significandbits(fmt))[1] % Pow2(fmt.expbits)

\* (i >> (bits - 1)) & 1
SignBit(fmt, i) == ShrBits(i, fmt.bits - 1)[1] % 2

\* UnpackStart with the exponent field taken as the shift, bias forgotten
UnpackStartUnbiased(fmt, i) ==
    [result |-> Finite(0, 0, ShlBits(LowBits(i, significandbits(fmt)),
                                     64 - significandbits(fmt))),
     shift |-> ExpField(fmt, i)]

\* result = (i & mask) / 2^significandbits + 1.0f; shift = field - bias
UnpackStart(fmt, i) ==
    [result |-> Finite(0, 0, ShlBits(LowBits(i, significandbits(fmt)),
                                     64 - significandbits(fmt))),
     shift |-> ExpField(fmt, i) - Bias(fmt)]

\* result *= (i >> (bits - 1)) & 1 ? -1.0 : 1.0; return result
UnpackResult(fmt, i, st) == [st.result EXCEPT !.sign = SignBit(fmt, i)]

\* unpack754<bits, expbits>(i)
unpack754(fmt, i) ==
    IF i = Zero(uint64_t)
    THEN RealZero(0)
    ELSE UnpackResult(fmt, i, ScaledDown(ScaledUp(UnpackStart(fmt, i))))

(***************************************************************************)
(* Conversion of a long double to float / double, for the results of      *)
(* unpack754: at most significandbits fraction bits, exp >= -bias.         *)
(***************************************************************************)
\* position of the last fraction bit of the format in frac: limb and weight
UlpLimb(fmt) == ((64 - significandbits(fmt)) \div 16) + 1
UlpUnit(fmt) == Pow2((64 - significandbits(fmt)) % 16)

RECURSIVE AddAt(_, _, _)
\* frac + u * 2^(16 * (L - 1)), as [frac, carry]
AddAt(frac, L, u) ==
    IF L > 4 THEN [frac |-> frac, carry |-> u]
    ELSE AddAt([frac EXCEPT ![L] = (@ + u) % 65536], L + 1,
               (frac[L] + u) \div 65536)

\* a value (1 + m / 2^sb) * 2^(-bias), half-way between two subnormals when
\* m is odd: round to nearest, ties to the even multiple of the subnormal
\* spacing
RoundSubnormal(fmt, r) ==
    LET m4 == (r.frac[UlpLimb(fmt)] \div UlpUnit(fmt)) % 4
        up == AddAt(r.frac, UlpLimb(fmt), UlpUnit(fmt))
    IN  IF m4 % 2 = 0 THEN r
        ELSE IF m4 = 1
        THEN [r EXCEPT !.frac[UlpLimb(fmt)] = @ - UlpUnit(fmt)]
        ELSE IF up.carry = 0 THEN [r EXCEPT !.frac = up.frac]
        ELSE [r EXCEPT !.frac = NoFrac, !.exp = @ + 1]

\* the largest finite value of the format
MaxFinite(fmt, sign) ==
    Finite(sign, Bias(fmt),
           ShlBits(<<65535, 65535, 65535, 65535>>, 64 - significandbits(fmt)))

\* what a conversion of a value beyond the largest finite one may give (the
\* behaviour is undefined)
Huge == {"inf", "max"}

\* static_cast<float>(r) / static_cast<double>(r)
CastReal(fmt, r, huge) ==
    IF r.kind # "finite" THEN r
    ELSE IF r.exp > Bias(fmt)
    THEN (IF huge = "inf" THEN Infinity(r.sign) ELSE MaxFinite(fmt, r.sign))
    ELSE IF r.exp >= 1 - Bias(fmt) THEN r
    ELSE RoundSubnormal(fmt, r)

(***************************************************************************)
(* Float codec.  `ind` is what a decode reads that the program has not     *)
(* set: ind.upper, the four bytes of the local `uint64_t i` of             *)
(* decode_float that memcpy leaves uninitialised, and ind.huge, the        *)
(* outcome of converting a value beyond the largest finite one.            *)
(***************************************************************************)
\* memcpy(buffer, &x, k) of the low k bytes of a 64-bit pattern
StoreBytes(buf, off, x, k) ==
    [j \in 1..Len(buf) |->
        IF j > off /\ j <= off + k
        THEN (IF (j - off) % 2 = 1
              THEN x[((j - off - 1) \div 2) + 1] % 256
              ELSE x[((j - off - 1) \div 2) + 1] \div 256)
        ELSE buf[j]]

\* a 16-bit limb of the bytes at buffer + off + k, buffer + off + k + 1
LoadLimb(buf, off, k) == Load(buf, off, k) + 256 * Load(buf, off, k + 1)

\* encode_float writing `encoded` without masking and narrowing it to 32
\* bits first
encode_float_wide(buf, off, f) == StoreBytes(buf, off, pack754(binary32, f), 8)

\* encode_float(buffer + off, f): the buffer afterwards
encode_float(buf, off, f) ==
    StoreBytes(buf, off, LowBits(pack754(binary32, f), 32), 4)

\* encode_double(buffer + off, f): the buffer afterwards
encode_double(buf, off, f) == StoreBytes(buf, off, pack754(binary64, f), 8)

\* decode_float(buffer + off, f): the value stored in f
decode_float(buf, off, ind) ==
    CastReal(binary32,
             unpack754(binary32,
                       <<LoadLimb(buf, off, 0), LoadLimb(buf, off, 2),
                         ind.upper[1], ind.upper[2]>>),
             ind.huge)

\* decode_double(buffer + off, f): the value stored in f
decode_double(buf, off, ind) ==
    CastReal(binary64,
             unpack754(binary64,
                       <<LoadLimb(buf, off, 0), LoadLimb(buf, off, 2),
                         LoadLimb(buf, off, 4), LoadLimb(buf, off, 6)>>),
             ind.huge)

(***************************************************************************)
(* Variadic integer codec.  `args` is the argument pack as a sequence of   *)
(* [T, value] records, `types` the types of the output references; both    *)
(* have at least one element.  An encode gives [buffer, ret], a decode     *)
(* [values, ret].                                                          *)
(***************************************************************************)
\* PlusRet that returns what the call on the rest of the pack returned
PlusRetRest(nbytes, r) == r

\* return nbytes + <the call on the rest of the pack>
PlusRet(nbytes, r) == [r EXCEPT !.ret = nbytes + r.ret]

\* the first output reference holds v, the others what the call on the rest
\* of the pack stored; return nbytes + <that call>
PlusValue(v, nbytes, r) == [values |-> <<v>> \o r.values, ret |-> nbytes + r.ret]

RECURSIVE encode_le_args_nostep(_, _, _)
\* the variadic encode_le passing `buffer` instead of buffer + sizeof(T)
encode_le_args_nostep(buf, off, args) ==
    IF Len(args) = 1
    THEN [buffer |-> encode_le(buf, off, args[1].T, args[1].value),
          ret |-> SizeOf(args[1].T)]
    ELSE PlusRet(SizeOf(args[1].T),
                 encode_le_args_nostep(
                     encode_le(buf, off, args[1].T, args[1].value),
                     off, Tail(args)))

RECURSIVE encode_le_args(_, _, _)
\* encode_le(buffer + off, value, args...)
encode_le_args(buf, off, args) ==
    IF Len(args) = 1
    THEN [buffer |-> encode_le(buf, off, args[1].T, args[1].value),
          ret |-> SizeOf(args[1].T)]
    ELSE PlusRet(SizeOf(args[1].T),
                 encode_le_args(
                     encode_le(buf, off, args[1].T, args[1].value),
                     off + args[1].T.size, Tail(args)))

RECURSIVE encode_be_args(_, _, _)
\* encode_be(buffer + off, value, args...)
encode_be_args(buf, off, args) ==
    IF Len(args) = 1
    THEN [buffer |-> encode_be(buf, off, args[1].T, args[1].value),
          ret |-> SizeOf(args[1].T)]
    ELSE PlusRet(SizeOf(args[1].T),
                 encode_be_args(
                     encode_be(buf, off, args[1].T, args[1].value),
                     off + args[1].T.size, Tail(args)))

RECURSIVE decode_le_args(_, _, _)
\* decode_le(buffer + off, value, args...)
decode_le_args(buf, off, types) ==
    IF Len(types) = 1
    THEN [values |-> <<decode_le(buf, off, types[1])>>,
          ret |-> SizeOf(types[1])]
    ELSE PlusValue(decode_le(buf, off, types[1]), SizeOf(types[1]),
                   decode_le_args(buf, off + types[1].size, Tail(types)))

RECURSIVE decode_be_args_nostep(_, _, _)
\* the variadic decode_be passing `buffer` instead of buffer + sizeof(T)
decode_be_args_nostep(buf, off, types) ==
    IF Len(types) = 1
    THEN [values |-> <<decode_be(buf, off, types[1])>>,
          ret |-> SizeOf(types[1])]
    ELSE PlusValue(decode_be(buf, off, types[1]), SizeOf(types[1]),
                   decode_be_args_nostep(buf, off, Tail(types)))

RECURSIVE decode_be_args(_, _, _)
\* decode_be(buffer + off, value, args...)
decode_be_args(buf, off, types) ==
    IF Len(types) = 1
    THEN [values |-> <<decode_be(buf, off, types[1])>>,
          ret |-> SizeOf(types[1])]
    ELSE PlusValue(decode_be(buf, off, types[1]), SizeOf(types[1]),
                   decode_be_args(buf, off + types[1].size, Tail(types)))

(***************************************************************************)
(* Endianness dispatcher                                                   *)
(***************************************************************************)
\* std::is_integral<T>
is_integral(T) == T \in IntTypes

\* the dispatcher sending every integral T to encode_le
encode_as_le(buf, off, T, endianness, value) ==
    IF is_integral(T) THEN encode_le(buf, off, T, value)
    ELSE IF is_float(T) THEN encode_float(buf, off, value)
    ELSE encode_double(buf, off, value)

\* encode<T, endianness>(buffer + off, value): the buffer afterwards
encode(buf, off, T, endianness, value) ==
    IF is_integral(T)
    THEN (IF endianness = "little"
          THEN encode_le(buf, off, T, value)
          ELSE encode_be(buf, off, T, value))
    ELSE IF is_float(T) THEN encode_float(buf, off, value)
    ELSE encode_double(buf, off, value)

\* decode<T, endianness>(buffer + off, value): the value stored in `value`;
\* ind is the indeterminate data a decode_float / decode_double reads
decode(buf, off, T, endianness, ind) ==
    IF is_integral(T)
    THEN (IF endianness = "little"
          THEN decode_le(buf, off, T)
          ELSE decode_be(buf, off, T))
    ELSE IF is_float(T) THEN decode_float(buf, off, ind)
    ELSE decode_double(buf, off, ind)

\* the ind passed by the container codec, whose decoding side is modelled
\* for integral count and element types: their decodes read nothing
\* indeterminate
NoInd == [upper |-> <<0, 0>>, huge |-> "inf"]

\* the offsets of the buffer bytes a single-value decode at buffer + off
\* loads: buffer[0] .. buffer[sizeof(T) - 1]
Touched(off, T) == {off + k : k \in 0..(T.size - 1)}

(***************************************************************************)
(* Length-prefixed container codec                                         *)
(***************************************************************************)
\* std::size_t, std::string::size_type, std::vector<T>::size_type
size_t == uint64_t

\* char, the element type of std::string (a signed 1-byte integral type)
char == int8_t

\* a > b on two values of the same integer type
RECURSIVE GreaterFrom(_, _, _)
GreaterFrom(a, b, i) ==
    IF i = 0 THEN FALSE
    ELSE IF a[i] # b[i] THEN a[i] > b[i]
    ELSE GreaterFrom(a, b, i - 1)

Greater(U, a, b) == GreaterFrom(a, b, NLimbs(U))

\* the value k (0 <= k < 256) as a value of type U
FromNat(U, k) == Widen(U, k)

\* number of iterations of `for (U i = 0; i < n; ++i)`: none for a negative
\* n, else n (the harness keeps a nonnegative n below 2^15)
Count(U, n) == IF IsNegative(U, n) THEN 0 ELSE n[1]

\* static_cast<int>(n * sizeof(T)) for n of type U: n is converted to size_t
\* (sign-extended), the product is taken modulo 2^64 and its low 32 bits are
\* read as an int
MulSizeToInt(U, n, sz) ==
    LET lo  == n[1] % 65536
        hi  == IF NLimbs(U) >= 2 THEN n[2] % 65536
               ELSE IF n[1] < 0 THEN 65535 ELSE 0
        plo == lo * sz
        phi == (hi * sz + (plo \div 65536)) % 65536
        h   == IF phi >= 32768 THEN phi - 65536 ELSE phi
    IN h * 65536 + (plo % 65536)

\* sizeof(U) + i for an int i, returned as int: the sum is a size_t, its low
\* 32 bits are read as an int
AddSizeToInt(szU, i) ==
    IF i > 2147483647 - szU
    THEN (i - 2147483647) + (szU - 2147483647) - 2
    ELSE szU + i

\* the loop of encode_length_prefixed from iteration i on: the buffer afterwards
RECURSIVE EncodeLoop(_, _, _, _, _, _, _)
EncodeLoop(buf, off, T, endianness, arr, i, n) ==
    IF i < n
    THEN EncodeLoop(encode(buf, off, T, endianness, arr[i + 1]),
                    off + SizeOf(T), T, endianness, arr, i + 1, n)
    ELSE buf

\* encode_length_prefixed without `buffer += sizeof(U)`: the elements are
\* written over the prefix
encode_length_prefixed_noadvance(buf, off, T, U, endianness, arr, n) ==
    [buffer |-> EncodeLoop(encode(buf, off, U, endianness, n),
                           off, T, endianness, arr, 0, Count(U, n)),
     ret    |-> AddSizeToInt(SizeOf(U), MulSizeToInt(U, n, SizeOf(T)))]

\* encode_length_prefixed<T, U, endianness>(buffer + off, arr, n)
encode_length_prefixed(buf, off, T, U, endianness, arr, n) ==
    [buffer |-> EncodeLoop(encode(buf, off, U, endianness, n),
                           off + SizeOf(U), T, endianness, arr, 0, Count(U, n)),
     ret    |-> AddSizeToInt(SizeOf(U), MulSizeToInt(U, n, SizeOf(T)))]

\* the loop of decode_length_prefixed storing element i in arr[i + 1]
RECURSIVE DecodeLoopShifted(_, _, _, _, _, _, _, _, _)
DecodeLoopShifted(buf, off, T, endianness, arr, reads, writes, i, n) ==
    IF i < n
    THEN DecodeLoopShifted(buf, off + SizeOf(T), T, endianness,
                    IF i + 2 \in DOMAIN arr
                    THEN [arr EXCEPT ![i + 2] = decode(buf, off, T, endianness, NoInd)]
                    ELSE arr,
                    reads \cup Touched(off, T),
                    writes \cup {i + 1},
                    i + 1, n)
    ELSE [arr |-> arr, reads |-> reads, writes |-> writes]

\* the loop of decode_length_prefixed from iteration i on; arr is the array,
\* reads the buffer offsets read and writes the array indices written so far
RECURSIVE DecodeLoop(_, _, _, _, _, _, _, _, _)
DecodeLoop(buf, off, T, endianness, arr, reads, writes, i, n) ==
    IF i < n
    THEN DecodeLoop(buf, off + SizeOf(T), T, endianness,
                    [arr EXCEPT ![i + 1] = decode(buf, off, T, endianness, NoInd)],
                    reads \cup Touched(off, T),
                    writes \cup {i},
                    i + 1, n)
    ELSE [arr |-> arr, reads |-> reads, writes |-> writes]

\* decode_length_prefixed returning the bytes of the elements only, without
\* the sizeof(U) bytes of the prefix
decode_length_prefixed_nosize(buf, off, T, U, endianness, arr, max_arr_length) ==
    LET arr_length == decode(buf, off, U, endianness, NoInd)
    IN IF Greater(U, arr_length, max_arr_length)
       THEN [ret |-> -1, arr |-> arr, reads |-> Touched(off, U), writes |-> {}]
       ELSE [ret |-> MulSizeToInt(U, arr_length, SizeOf(T))]
            @@ DecodeLoop(buf, off + SizeOf(U), T, endianness, arr,
                          Touched(off, U), {}, 0, Count(U, arr_length))

\* decode_length_prefixed that decodes the first element before it compares
\* the count with max_arr_length
decode_length_prefixed_eager(buf, off, T, U, endianness, arr, max_arr_length) ==
    LET arr_length == decode(buf, off, U, endianness, NoInd)
    IN IF Greater(U, arr_length, max_arr_length)
       THEN [ret    |-> -1,
             arr    |-> IF 1 \in DOMAIN arr
                        THEN [arr EXCEPT ![1] = decode(buf, off + SizeOf(U), T, endianness, NoInd)]
                        ELSE arr,
             reads  |-> Touched(off, U) \cup Touched(off + SizeOf(U), T),
             writes |-> IF 1 \in DOMAIN arr THEN {0} ELSE {}]
       ELSE [ret |-> AddSizeToInt(SizeOf(U), MulSizeToInt(U, arr_length, SizeOf(T)))]
            @@ DecodeLoop(buf, off + SizeOf(U), T, endianness, arr,
                          Touched(off, U), {}, 0, Count(U, arr_length))

\* decode_length_prefixed<T, U, endianness>(buffer + off, arr, max_arr_length)
decode_length_prefixed(buf, off, T, U, endianness, arr, max_arr_length) ==
    LET arr_length == decode(buf, off, U, endianness, NoInd)
    IN IF Greater(U, arr_length, max_arr_length)
       THEN [ret |-> -1, arr |-> arr, reads |-> Touched(off, U), writes |-> {}]
       ELSE [ret |-> AddSizeToInt(SizeOf(U), MulSizeToInt(U, arr_length, SizeOf(T)))]
            @@ DecodeLoop(buf, off + SizeOf(U), T, endianness, arr,
                          Touched(off, U), {}, 0, Count(U, arr_length))

\* c.resize(k) of a std::string / std::vector<T> c: truncated to k elements,
\* or extended with value-initialised (zero) elements
Resize(c, k, T) == [j \in 1..k |-> IF j <= Len(c) THEN c[j] ELSE Zero(T)]

\* the string encode writing its size_t prefix most significant byte first
encode_length_prefixed_string_be(buf, off, s) ==
    encode_length_prefixed(buf, off, char, size_t, "big", s,
                           FromNat(size_t, Len(s)))

\* encode_length_prefixed(buffer + off, const std::string &s)
encode_length_prefixed_string(buf, off, s) ==
    encode_length_prefixed(buf, off, char, size_t, default_endianness, s,
                           FromNat(size_t, Len(s)))

\* encode_length_prefixed<T>(buffer + off, const std::vector<T> &v)
encode_length_prefixed_vector(buf, off, T, v) ==
    encode_length_prefixed(buf, off, T, size_t, default_endianness, v,
                           FromNat(size_t, Len(v)))

\* the statements of the string decode after its inner call, which returned
\* r.ret (bytes_read) and left the temporary str as r.arr: s afterwards, the
\* return value, and the reads and writes of the inner call
StringDecoded(r, s) ==
    IF r.ret = -1
    THEN [ret |-> -1, s |-> s, reads |-> r.reads, writes |-> r.writes]
    ELSE [ret    |-> r.ret,
          s      |-> Resize(r.arr, r.ret - SizeOf(size_t), char),
          reads  |-> r.reads,
          writes |-> r.writes]

\* the string decode moving the temporary into s before it looks at
\* bytes_read
decode_length_prefixed_string_moved(buf, off, s, max_string_length) ==
    LET str == Resize(<<>>, max_string_length, char)
        r   == decode_length_prefixed(buf, off, char, size_t, default_endianness,
                                      str, FromNat(size_t, max_string_length))
    IN IF r.ret = -1
       THEN [ret |-> -1, s |-> r.arr, reads |-> r.reads, writes |-> r.writes]
       ELSE [ret    |-> r.ret,
             s      |-> Resize(r.arr, r.ret - SizeOf(size_t), char),
             reads  |-> r.reads,
             writes |-> r.writes]

\* decode_length_prefixed(buffer + off, std::string &s, max_string_length):
\* the temporary str is resized to max_string_length and decoded into
decode_length_prefixed_string(buf, off, s, max_string_length) ==
    StringDecoded(decode_length_prefixed(buf, off, char, size_t, default_endianness,
                                         Resize(<<>>, max_string_length, char),
                                         FromNat(size_t, max_string_length)),
                  s)

\* the statements of the vector decode after its inner call, which returned
\* r.ret (bytes_read) and left the temporary vec as r.arr: v afterwards (s),
\* the return value, and the reads and writes of the inner call
VectorDecoded(r, v, T) ==
    IF r.ret = -1
    THEN [ret |-> -1, s |-> v, reads |-> r.reads, writes |-> r.writes]
    ELSE [ret    |-> r.ret,
          s      |-> Resize(r.arr, (r.ret - SizeOf(size_t)) \div SizeOf(T), T),
          reads  |-> r.reads,
          writes |-> r.writes]

\* the vector decode without the final vec.resize
decode_length_prefixed_vector_noshrink(buf, off, T, v, max_length) ==
    LET vec == Resize(<<>>, max_length, T)
        r   == decode_length_prefixed(buf, off, T, size_t, default_endianness,
                                      vec, FromNat(size_t, max_length))
    IN IF r.ret = -1
       THEN [ret |-> -1, s |-> v, reads |-> r.reads, writes |-> r.writes]
       ELSE [ret |-> r.ret, s |-> r.arr, reads |-> r.reads, writes |-> r.writes]

\* decode_length_prefixed<T>(buffer + off, std::vector<T> &v, max_length):
\* the temporary vec is resized to max_length and decoded into
decode_length_prefixed_vector(buf, off, T, v, max_length) ==
    VectorDecoded(decode_length_prefixed(buf, off, T, size_t, default_endianness,
                                         Resize(<<>>, max_length, T),
                                         FromNat(size_t, max_length)),
                  v, T)

(***************************************************************************)
(* Harness of the integer codec: a caller that owns one buffer, filled     *)
(* with one byte value at first, and calls the single-value functions on   *)
(* it at offset 0, in any order.  `call` holds the arguments and results   *)
(* of the call that just returned, until the caller drops them.            *)
(***************************************************************************)
\* values passed to the encoders: MIN and MAX of the signed types, the
\* samples of the tests, UINT8_MAX
Samples(T) ==
    CASE T = int8_t   -> {<<-128>>, <<-72>>, <<127>>}
      [] T = uint8_t  -> {<<60>>, <<255>>}
      [] T = int16_t  -> {<<-32768>>, <<-32684>>, <<32767>>}
      [] T = uint16_t -> {<<28251>>}
      [] T = int32_t  -> {<<0, -32768>>, <<52719, 32683>>, <<65535, 32767>>}
      [] T = uint32_t -> {<<13398, 61458>>}
      [] T = int64_t  -> {<<0, 0, 0, -32768>>, <<17767, 291, 52719, 32683>>,
                          <<65535, 65535, 65535, 32767>>}
      [] T = uint64_t -> {<<12816, 30292, 47768, 65244>>}

\* bytes a fresh buffer is filled with
Fill == {0, 170}

\* a buffer of len bytes f
Blank(len, f) == [k \in 1..len |-> f]

\* length of the buffer of the integer harness
IntBufLen == 8 + Slack

NoCall == [op |-> "none"]

Max(a, b) == IF a >= b THEN a ELSE b

Init ==
    /\ fill \in Fill
    /\ buffer = Blank(IntBufLen, fill)
    /\ call = NoCall
    /\ enc = NoCall
    /\ maxw = 0
    /\ nenc = 0

\* encode_be(buffer, x) with x of type T
EncodeBE ==
    /\ call = NoCall
    /\ nenc < MaxEncodes
    /\ nenc' = nenc + 1
    /\ \E T \in IntTypes : \E x \in Samples(T) :
        /\ buffer' = encode_be(buffer, 0, T, x)
        /\ call' = [op |-> "encode", order |-> "big", T |-> T, value |-> x,
                    ret |-> SizeOf(T)]
        /\ enc' = call'
        /\ maxw' = Max(maxw, T.size)
        /\ UNCHANGED fill

\* encode_le(buffer, x) with x of type T
EncodeLE ==
    /\ call = NoCall
    /\ nenc < MaxEncodes
    /\ nenc' = nenc + 1
    /\ \E T \in IntTypes : \E x \in Samples(T) :
        /\ buffer' = encode_le(buffer, 0, T, x)
        /\ call' = [op |-> "encode", order |-> "little", T |-> T, value |-> x,
                    ret |-> SizeOf(T)]
        /\ enc' = call'
        /\ maxw' = Max(maxw, T.size)
        /\ UNCHANGED fill

\* decode_be(buffer, y) with y of type T
DecodeBE ==
    /\ call = NoCall
    /\ \E T \in IntTypes :
        /\ call' = [op |-> "decode", order |-> "big", T |-> T,
                    value |-> decode_be(buffer, 0, T), ret |-> SizeOf(T)]
        /\ UNCHANGED <<buffer, enc, fill, maxw, nenc>>

\* decode_le(buffer, y) with y of type T
DecodeLE ==
    /\ call = NoCall
    /\ \E T \in IntTypes :
        /\ call' = [op |-> "decode", order |-> "little", T |-> T,
                    value |-> decode_le(buffer, 0, T), ret |-> SizeOf(T)]
        /\ UNCHANGED <<buffer, enc, fill, maxw, nenc>>

\* the caller has looked at the results of the last call and goes on
Drop ==
    /\ call # NoCall
    /\ call' = NoCall
    /\ UNCHANGED <<buffer, enc, fill, maxw, nenc>>

Next == EncodeBE \/ EncodeLE \/ DecodeBE \/ DecodeLE \/ Drop

Spec == Init /\ [][Next]_vars


(***************************************************************************)
(* Harness of the variadic codec: a caller packs tuples of integers into   *)
(* a fresh buffer and unpacks the buffer into references of any of the     *)
(* tuples' types.                                                          *)
(***************************************************************************)
\* the tuple of MultipleEncodingSameBuffer.Integers
TestTuple ==
    << [T |-> uint8_t,  value |-> <<253>>],
       [T |-> int8_t,   value |-> <<-126>>],
       [T |-> uint16_t, value |-> <<65530>>],
       [T |-> int16_t,  value |-> <<-32763>>],
       [T |-> uint32_t, value |-> <<10, 0>>],
       [T |-> int32_t,  value |-> <<16901, -9>>],
       [T |-> uint64_t, value |-> <<28336, 60368, 413, 0>>],
       [T |-> int64_t,  value |-> <<33132, 29815, 65535, -1>>] >>

\* the tuples the caller packs: the test's, the same with the widest types
\* first, and short ones that put wide values at odd offsets
Tuples ==
    { TestTuple,
      [i \in 1..8 |-> TestTuple[9 - i]],
      << [T |-> uint8_t, value |-> <<60>>],
         [T |-> int64_t, value |-> <<0, 0, 0, -32768>>],
         [T |-> int16_t, value |-> <<-32684>>] >>,
      << [T |-> int32_t, value |-> <<52719, 32683>>],
         [T |-> int8_t,  value |-> <<-72>>] >>,
      << [T |-> uint16_t, value |-> <<28251>>] >> }

\* the types of a pack
TypesOf(args) == [i \in 1..Len(args) |-> args[i].T]

\* the values of a pack
ValuesOf(args) == [i \in 1..Len(args) |-> args[i].value]

\* length of the buffer of the variadic harness: the 30 bytes of the test
VarBufLen == 30 + Slack

InitVar ==
    /\ fill \in Fill
    /\ buffer = Blank(VarBufLen, fill)
    /\ call = NoCall
    /\ enc = NoCall
    /\ maxw = 0
    /\ nenc = 0

\* the state after a variadic encode that gave r
EncodedArgs(order, args, r) ==
    /\ buffer' = r.buffer
    /\ call' = [op |-> "encode_args", order |-> order, args |-> args,
                before |-> buffer, ret |-> r.ret]
    /\ enc' = call'
    /\ maxw' = Max(maxw, r.ret)
    /\ nenc' = nenc + 1
    /\ UNCHANGED fill

\* encode_le(buffer, v1, ..., vn)
EncodeLEArgs ==
    /\ call = NoCall
    /\ nenc < MaxEncodes
    /\ \E args \in Tuples :
        EncodedArgs("little", args, encode_le_args(buffer, 0, args))

\* encode_be(buffer, v1, ..., vn)
EncodeBEArgs ==
    /\ call = NoCall
    /\ nenc < MaxEncodes
    /\ \E args \in Tuples :
        EncodedArgs("big", args, encode_be_args(buffer, 0, args))

\* decode_le(buffer, y1, ..., yn)
DecodeLEArgs ==
    /\ call = NoCall
    /\ \E args \in Tuples :
        /\ call' = [op |-> "decode_args", order |-> "little",
                    types |-> TypesOf(args)]
                   @@ decode_le_args(buffer, 0, TypesOf(args))
        /\ UNCHANGED <<buffer, enc, fill, maxw, nenc>>

\* decode_be(buffer, y1, ..., yn)
DecodeBEArgs ==
    /\ call = NoCall
    /\ \E args \in Tuples :
        /\ call' = [op |-> "decode_args", order |-> "big",
                    types |-> TypesOf(args)]
                   @@ decode_be_args(buffer, 0, TypesOf(args))
        /\ UNCHANGED <<buffer, enc, fill, maxw, nenc>>

NextVar == EncodeLEArgs \/ EncodeBEArgs \/ DecodeLEArgs \/ DecodeBEArgs \/ Drop

SpecVar == InitVar /\ [][NextVar]_vars


(***************************************************************************)
(* Harness of the float codec: a caller encodes one float or double into   *)
(* a fresh buffer, or holds received bytes, and decodes the buffer as a    *)
(* float or a double.                                                      *)
(***************************************************************************)
\* floats passed to encode_float: 0 and -0, values of the test (FLT_MIN, 1,
\* -1, 5, -3, FLT_MAX, pi, -e, 6.62310e23f), -FLT_MAX, and subnormals (the
\* smallest 2^-149, 2^-127, 2^-128, -3 * 2^-149, the largest)
FloatValues ==
    { RealZero(0), RealZero(1),
      Finite(0, -126, NoFrac),
      Finite(0, 0, NoFrac),
      Finite(1, 0, NoFrac),
      Finite(0, 2, <<0, 0, 0, 16384>>),
      Finite(1, 1, <<0, 0, 0, 32768>>),
      Finite(0, 127, <<0, 0, 65024, 65535>>),
      Finite(1, 127, <<0, 0, 65024, 65535>>),
      Finite(0, 1, <<0, 0, 46592, 37407>>),
      Finite(1, 1, <<0, 0, 43008, 23536>>),
      Finite(0, 79, <<0, 0, 52224, 6271>>),
      Finite(0, -149, NoFrac),
      Finite(0, -127, NoFrac),
      Finite(0, -128, NoFrac),
      Finite(1, -148, <<0, 0, 0, 32768>>),
      Finite(0, -127, <<0, 0, 64512, 65535>>) }

\* doubles passed to encode_double: 0, -0, values of the test (DBL_MIN, 1,
\* DBL_MAX, -DBL_MIN, pi, -e), -2.5, and the subnormals 2^-1074 and 2^-1023
DoubleValues ==
    { RealZero(0),
      RealZero(1),
      Finite(0, -1022, NoFrac),
      Finite(0, 0, NoFrac),
      Finite(1, 1, <<0, 0, 0, 16384>>),
      Finite(0, 1023, <<61440, 65535, 65535, 65535>>),
      Finite(1, -1022, NoFrac),
      Finite(0, 1, <<32768, 17105, 46404, 37407>>),
      Finite(1, 1, <<36864, 17782, 43185, 23536>>),
      Finite(0, -1074, NoFrac),
      Finite(0, -1023, NoFrac) }

\* what the uninitialised half of `i` and an undefined conversion may give
Inds == [upper : {<<0, 0>>, <<1, 0>>, <<65535, 65535>>}, huge : Huge]

\* bytes a received buffer is filled with
FpFill == Fill \cup {255}

InitFP ==
    /\ fill \in FpFill
    /\ buffer = Blank(IntBufLen, fill)
    /\ call = NoCall
    /\ enc = NoCall
    /\ maxw = 0
    /\ nenc = 0

\* encode_float(buffer, x)
EncodeFloat ==
    /\ call = NoCall
    /\ enc = NoCall
    /\ \E x \in FloatValues :
        /\ buffer' = encode_float(buffer, 0, x)
        /\ call' = [op |-> "encode_float", T |-> float, f |-> x,
                    before |-> buffer, ret |-> SizeOf(float)]
        /\ enc' = call'
        /\ maxw' = Max(maxw, float.size)
        /\ nenc' = nenc + 1
        /\ UNCHANGED fill

\* encode_double(buffer, x)
EncodeDouble ==
    /\ call = NoCall
    /\ enc = NoCall
    /\ \E x \in DoubleValues :
        /\ buffer' = encode_double(buffer, 0, x)
        /\ call' = [op |-> "encode_double", T |-> double, f |-> x,
                    before |-> buffer, ret |-> SizeOf(double)]
        /\ enc' = call'
        /\ maxw' = Max(maxw, double.size)
        /\ nenc' = nenc + 1
        /\ UNCHANGED fill

\* decode_float(buffer, y)
DecodeFloat ==
    /\ call = NoCall
    /\ \E ind \in Inds :
        /\ call' = [op |-> "decode_float", T |-> float, ind |-> ind,
                    f |-> decode_float(buffer, 0, ind), ret |-> SizeOf(float)]
        /\ UNCHANGED <<buffer, enc, fill, maxw, nenc>>

\* decode_double(buffer, y)
DecodeDouble ==
    /\ call = NoCall
    /\ \E ind \in Inds :
        /\ call' = [op |-> "decode_double", T |-> double, ind |-> ind,
                    f |-> decode_double(buffer, 0, ind), ret |-> SizeOf(double)]
        /\ UNCHANGED <<buffer, enc, fill, maxw, nenc>>

NextFP == EncodeFloat \/ EncodeDouble \/ DecodeFloat \/ DecodeDouble \/ Drop

SpecFP == InitFP /\ [][NextFP]_vars


(***************************************************************************)
(* The float codec step by step: one action per iteration and per exit of  *)
(* the four loops.  `call` is the frame of the running call: its position  *)
(* pc and the loop state st.  Arguments of encode_float / encode_double    *)
(* are all values of the type, infinities and NaN included.                *)
(***************************************************************************)
\* the template arguments of the codec of T
FormatOf(T) == IF is_float(T) THEN binary32 ELSE binary64

\* what static_cast<long long> of a NaN may give (the behaviour is
\* undefined): 0, or the x86 "integer indefinite" 0x8000000000000000
NanSignificand == {<<0, 0, 0, 0>>, <<0, 0, 0, 32768>>}

\* the values `significand` may take
SignificandOutcomes(fmt, fnorm) ==
    IF fnorm.kind = "nan" THEN NanSignificand ELSE {Significand(fmt, fnorm)}

\* arguments of the encoders
LoopValues(T) ==
    (IF is_float(T) THEN FloatValues ELSE DoubleValues)
        \cup {Infinity(0), Infinity(1), NaN}

\* the uint64_t i of decode_float / decode_double
LoadPattern(buf, off, T, ind) ==
    IF is_float(T)
    THEN <<LoadLimb(buf, off, 0), LoadLimb(buf, off, 2), ind.upper[1], ind.upper[2]>>
    ELSE <<LoadLimb(buf, off, 0), LoadLimb(buf, off, 2),
           LoadLimb(buf, off, 4), LoadLimb(buf, off, 6)>>

\* the frame of a call that has returned
Returned(name, T, x) ==
    [op |-> name, pc |-> "done", T |-> T, f |-> x, ret |-> SizeOf(T)]

\* memcpy of the encoded value and return, in encode_float / encode_double
StoreEncoded(T, x, encoded) ==
    /\ buffer' = StoreBytes(buffer, 0, LowBits(encoded, 8 * T.size), T.size)
    /\ call' = Returned(IF is_float(T) THEN "encode_float" ELSE "encode_double", T, x)
    /\ enc' = call'
    /\ maxw' = Max(maxw, T.size)
    /\ nenc' = nenc + 1
    /\ UNCHANGED fill

\* a pack754 without the test of f == 0.0: every argument goes into the loops
CallEncodeNoZeroTest ==
    /\ call = NoCall
    /\ enc = NoCall
    /\ \E T \in {float, double} : \E x \in LoopValues(T) :
        /\ call' = [op |-> "pack754", pc |-> "halve", T |-> T, f |-> x,
                    st |-> PackStart(x)]
        /\ UNCHANGED <<buffer, enc, fill, maxw, nenc>>

\* encode_float(buffer, x) / encode_double(buffer, x) is called: pack754
\* runs up to its first loop, or returns 0 at once
CallEncode ==
    /\ call = NoCall
    /\ enc = NoCall
    /\ \E T \in {float, double} : \E x \in LoopValues(T) :
        IF x.kind = "zero"
        THEN StoreEncoded(T, x, Zero(uint64_t))
        ELSE /\ call' = [op |-> "pack754", pc |-> "halve", T |-> T, f |-> x,
                         st |-> PackStart(x)]
             /\ UNCHANGED <<buffer, enc, fill, maxw, nenc>>

\* one iteration of while (fnorm >= 2.0)
HalveIter ==
    /\ call.op = "pack754"
    /\ call.pc = "halve"
    /\ HalveCond(call.st)
    /\ call' = [call EXCEPT !.st = HalveStep(call.st)]
    /\ UNCHANGED <<buffer, enc, fill, maxw, nenc>>

\* while (fnorm >= 2.0) ends
HalveExit ==
    /\ call.op = "pack754"
    /\ call.pc = "halve"
    /\ ~HalveCond(call.st)
    /\ call' = [call EXCEPT !.pc = "double"]
    /\ UNCHANGED <<buffer, enc, fill, maxw, nenc>>

\* one iteration of while (fnorm < 1.0)
DoubleIter ==
    /\ call.op = "pack754"
    /\ call.pc = "double"
    /\ DoubleCond(call.st)
    /\ call' = [call EXCEPT !.st = DoubleStep(call.st)]
    /\ UNCHANGED <<buffer, enc, fill, maxw, nenc>>

\* while (fnorm < 1.0) ends: pack754 returns and the encoder stores
DoubleExit ==
    /\ call.op = "pack754"
    /\ call.pc = "double"
    /\ ~DoubleCond(call.st)
    /\ \E significand \in SignificandOutcomes(FormatOf(call.T), call.st.fnorm) :
        StoreEncoded(call.T, call.f,
                     PackBits(FormatOf(call.T), call.f.sign, call.st.shift,
                              significand))

\* decode_float(buffer, y) / decode_double(buffer, y) is called: unpack754
\* runs up to its first loop, or returns 0.0 at once
CallDecode ==
    /\ call = NoCall
    /\ \E T \in {float, double} : \E ind \in Inds :
        /\ call' =
            IF LoadPattern(buffer, 0, T, ind) = Zero(uint64_t)
            THEN Returned(IF is_float(T) THEN "decode_float" ELSE "decode_double",
                          T, RealZero(0))
            ELSE [op |-> "unpack754", pc |-> "up", T |-> T, ind |-> ind,
                  i |-> LoadPattern(buffer, 0, T, ind),
                  st |-> UnpackStart(FormatOf(T), LoadPattern(buffer, 0, T, ind))]
        /\ UNCHANGED <<buffer, enc, fill, maxw, nenc>>

\* one iteration of while (shift > 0)
UpIter ==
    /\ call.op = "unpack754"
    /\ call.pc = "up"
    /\ UpCond(call.st)
    /\ call' = [call EXCEPT !.st = UpStep(call.st)]
    /\ UNCHANGED <<buffer, enc, fill, maxw, nenc>>

\* while (shift > 0) ends
UpExit ==
    /\ call.op = "unpack754"
    /\ call.pc = "up"
    /\ ~UpCond(call.st)
    /\ call' = [call EXCEPT !.pc = "down"]
    /\ UNCHANGED <<buffer, enc, fill, maxw, nenc>>

\* one iteration of while (shift < 0)
DownIter ==
    /\ call.op = "unpack754"
    /\ call.pc = "down"
    /\ DownCond(call.st)
    /\ call' = [call EXCEPT !.st = DownStep(call.st)]
    /\ UNCHANGED <<buffer, enc, fill, maxw, nenc>>

\* while (shift < 0) ends: unpack754 returns and the decoder stores y
DownExit ==
    /\ call.op = "unpack754"
    /\ call.pc = "down"
    /\ ~DownCond(call.st)
    /\ call' = Returned(IF is_float(call.T) THEN "decode_float" ELSE "decode_double",
                        call.T,
                        CastReal(FormatOf(call.T),
                                 UnpackResult(FormatOf(call.T), call.i, call.st),
                                 call.ind.huge))
    /\ UNCHANGED <<buffer, enc, fill, maxw, nenc>>

\* the caller goes on after a call that has returned
Resume ==
    /\ call # NoCall
    /\ call.pc = "done"
    /\ call' = NoCall
    /\ UNCHANGED <<buffer, enc, fill, maxw, nenc>>

\* a step of the running call
Run ==
    \/ HalveIter \/ HalveExit \/ DoubleIter \/ DoubleExit
    \/ UpIter \/ UpExit \/ DownIter \/ DownExit

NextLoop == CallEncode \/ CallDecode \/ Run \/ Resume

\* a call that has started keeps running
SpecLoop == InitFP /\ [][NextLoop]_vars /\ WF_vars(Run)


(***************************************************************************)
(* Harness of the dispatcher: a caller encodes one value of any supported  *)
(* type, or one container of floats or doubles, into a fresh buffer        *)
(* through encode<T, endianness> and decodes the buffer through            *)
(* decode<T, endianness>.                                                  *)
(***************************************************************************)
\* the types encode<T, e> / decode<T, e> accept
DispatchTypes == IntTypes \cup {float, double}

\* values of type T passed to the dispatcher
ValuesOfType(T) ==
    IF is_integral(T) THEN Samples(T)
    ELSE IF is_float(T) THEN FloatValues
    ELSE DoubleValues

\* element i of an array of floats (pi, -FLT_MAX, ...) or of doubles (-e,
\* DBL_MIN, ...)
RealElem(T, i) ==
    IF is_float(T)
    THEN (IF i % 2 = 1 THEN Finite(0, 1, <<0, 0, 46592, 37407>>)
          ELSE Finite(1, 127, <<0, 0, 65024, 65535>>))
    ELSE (IF i % 2 = 1 THEN Finite(1, 1, <<36864, 17782, 43185, 23536>>)
          ELSE Finite(0, -1022, NoFrac))

\* the array of MaxLen floats or doubles
RealArr(T) == [i \in 1..MaxLen |-> RealElem(T, i)]

\* count types of the containers of floats
RealCountTypes == {uint8_t, uint16_t, int32_t, size_t}

InitDispatch ==
    /\ fill \in Fill
    /\ buffer = Blank(BufLen, fill)
    /\ call = NoCall
    /\ enc = NoCall
    /\ maxw = 0
    /\ nenc = 0

\* encode<T, endianness>(buffer, x)
DispatchEncode ==
    /\ call = NoCall
    /\ enc = NoCall
    /\ \E T \in DispatchTypes : \E endianness \in endian : \E x \in ValuesOfType(T) :
        /\ buffer' = encode(buffer, 0, T, endianness, x)
        /\ call' = [op |-> "encode", T |-> T, endianness |-> endianness,
                    value |-> x, before |-> buffer, ret |-> SizeOf(T)]
        /\ enc' = call'
        /\ maxw' = Max(maxw, T.size)
        /\ nenc' = nenc + 1
        /\ UNCHANGED fill

\* decode<T, endianness>(buffer, y)
DispatchDecode ==
    /\ call = NoCall
    /\ \E T \in DispatchTypes : \E endianness \in endian : \E ind \in Inds :
        /\ call' = [op |-> "decode", T |-> T, endianness |-> endianness,
                    ind |-> ind,
                    value |-> decode(buffer, 0, T, endianness, ind),
                    ret |-> SizeOf(T)]
        /\ UNCHANGED <<buffer, enc, fill, maxw, nenc>>

\* encode_length_prefixed<T, U, endianness>(buffer, arr, n) with T float or
\* double
EncodeReals ==
    /\ call = NoCall
    /\ enc = NoCall
    /\ \E T \in {float, double} : \E U \in RealCountTypes :
       \E endianness \in endian : \E k \in 0..MaxLen :
        /\ call' = [op |-> "encode_length_prefixed", T |-> T, U |-> U,
                    endianness |-> endianness, n |-> FromNat(U, k),
                    arr |-> RealArr(T), before |-> buffer]
                   @@ encode_length_prefixed(buffer, 0, T, U, endianness,
                                             RealArr(T), FromNat(U, k))
        /\ buffer' = call'.buffer
        /\ enc' = [op |-> "encode_length_prefixed", T |-> T, U |-> U,
                   endianness |-> endianness]
        /\ maxw' = Max(maxw, call'.ret)
        /\ nenc' = nenc + 1
        /\ UNCHANGED fill

NextDispatch == DispatchEncode \/ DispatchDecode \/ EncodeReals \/ Drop

SpecDispatch == InitDispatch /\ [][NextDispatch]_vars


(***************************************************************************)
(* A caller of all the single-value and variadic functions: it uses one    *)
(* buffer with one of the three codecs (integers, tuples of integers,      *)
(* floats and doubles), as the three harnesses above do.                   *)
(***************************************************************************)
\* the buffer is fresh or was written by the encoders named in ops
WrittenBy(ops) == enc.op \in ops \cup {"none"}

NextAll ==
    \/ WrittenBy({"encode"}) /\ (EncodeBE \/ EncodeLE \/ DecodeBE \/ DecodeLE)
    \/ WrittenBy({"encode_args"})
          /\ (EncodeLEArgs \/ EncodeBEArgs \/ DecodeLEArgs \/ DecodeBEArgs)
    \/ WrittenBy({"encode_float", "encode_double"})
          /\ (EncodeFloat \/ EncodeDouble \/ DecodeFloat \/ DecodeDouble)
    \/ Drop

SpecAll == InitVar /\ [][NextAll]_vars


(***************************************************************************)
(* A caller that encodes a value at an offset of a buffer, makes other     *)
(* calls that do not write the bytes of that value (encodes at the other   *)
(* offset, decodes anywhere), and encodes the same value with the same     *)
(* function at the same offset again.  `enc` is the first encode together  *)
(* with the bytes it left.                                                 *)
(***************************************************************************)
\* the two places of the buffer the caller encodes at
ReOffsets == {0, 8}

\* length of the buffer: two values of 8 bytes
ReBufLen == 16 + Slack

\* the encode calls [fn, T, value] the caller repeats
ReCalls ==
    [fn : {"encode_le", "encode_be"}, T : {int8_t}, value : Samples(int8_t)]
    \cup [fn : {"encode_le", "encode_be"}, T : {uint8_t}, value : Samples(uint8_t)]
    \cup [fn : {"encode_le", "encode_be"}, T : {int16_t}, value : Samples(int16_t)]
    \cup [fn : {"encode_le", "encode_be"}, T : {uint16_t}, value : Samples(uint16_t)]
    \cup [fn : {"encode_le", "encode_be"}, T : {int32_t}, value : Samples(int32_t)]
    \cup [fn : {"encode_le", "encode_be"}, T : {uint32_t}, value : Samples(uint32_t)]
    \cup [fn : {"encode_le", "encode_be"}, T : {int64_t}, value : Samples(int64_t)]
    \cup [fn : {"encode_le", "encode_be"}, T : {uint64_t}, value : Samples(uint64_t)]
    \cup [fn : {"encode_float"}, T : {float},
          value : {RealZero(0), RealElem(float, 1), RealElem(float, 2),
                   Finite(0, -149, NoFrac)}]
    \cup [fn : {"encode_double"}, T : {double},
          value : {RealZero(0), RealElem(double, 1), RealElem(double, 2),
                   Finite(0, 0, NoFrac)}]

\* the encode calls made in between
OtherCalls ==
    { [fn |-> "encode_be", T |-> int64_t, value |-> <<0, 0, 0, -32768>>],
      [fn |-> "encode_le", T |-> uint8_t, value |-> <<255>>],
      [fn |-> "encode_float", T |-> float, value |-> RealElem(float, 1)],
      [fn |-> "encode_double", T |-> double, value |-> RealElem(double, 1)] }

\* the buffer after the call c at buffer + off
Applied(c, buf, off) ==
    CASE c.fn = "encode_le" -> encode_le(buf, off, c.T, c.value)
      [] c.fn = "encode_be" -> encode_be(buf, off, c.T, c.value)
      [] c.fn = "encode_float" -> encode_float(buf, off, c.value)
      [] c.fn = "encode_double" -> encode_double(buf, off, c.value)

\* the bytes buffer[off] .. buffer[off + size - 1]
Region(buf, off, size) == SubSeq(buf, off + 1, off + size)

InitRe ==
    /\ fill \in Fill
    /\ buffer = Blank(ReBufLen, fill)
    /\ call = NoCall
    /\ enc = NoCall
    /\ maxw = 0
    /\ nenc = 0

\* the state after the encode c at buffer + off
EncodedAt(c, off) ==
    /\ buffer' = Applied(c, buffer, off)
    /\ call' = [op |-> "encode_at", fn |-> c.fn, T |-> c.T, value |-> c.value,
                off |-> off, ret |-> SizeOf(c.T)]
    /\ maxw' = Max(maxw, off + c.T.size)
    /\ nenc' = nenc + 1
    /\ UNCHANGED fill

\* the first encode of a value
EncodeFirst ==
    /\ call = NoCall
    /\ enc = NoCall
    /\ \E c \in ReCalls : \E off \in ReOffsets :
        /\ EncodedAt(c, off)
        /\ enc' = [fn |-> c.fn, T |-> c.T, value |-> c.value, off |-> off,
                   bytes |-> Region(buffer', off, c.T.size)]

\* another encode, at the other offset
EncodeOther ==
    /\ call = NoCall
    /\ enc # NoCall
    /\ nenc < MaxEncodes + 1
    /\ \E c \in OtherCalls : EncodedAt(c, 8 - enc.off)
    /\ UNCHANGED enc

\* the first encode once more
EncodeAgain ==
    /\ call = NoCall
    /\ enc # NoCall
    /\ nenc < MaxEncodes + 1
    /\ EncodedAt([fn |-> enc.fn, T |-> enc.T, value |-> enc.value], enc.off)
    /\ UNCHANGED enc

\* a decode at one of the offsets
DecodeAt ==
    /\ call = NoCall
    /\ \E off \in ReOffsets :
        \/ \E T \in {uint16_t, int64_t} : \E endianness \in endian :
              call' = [op |-> "decode_at", T |-> T, off |-> off,
                       value |-> decode(buffer, off, T, endianness, NoInd),
                       ret |-> SizeOf(T)]
        \/ \E T \in {float, double} :
           \E ind \in {i \in Inds : is_float(T) \/ i.upper = <<0, 0>>} :
              call' = [op |-> "decode_at", T |-> T, off |-> off,
                       value |-> decode(buffer, off, T, default_endianness, ind),
                       ret |-> SizeOf(T)]
    /\ UNCHANGED <<buffer, enc, fill, maxw, nenc>>

NextRe == EncodeFirst \/ EncodeOther \/ EncodeAgain \/ DecodeAt \/ Drop

SpecRe == InitRe /\ [][NextRe]_vars


(***************************************************************************)
(* Harness of the container codec: a caller that either holds a received   *)
(* message in its buffer and decodes it with any types, byte order and     *)
(* maximum, or builds one message in a fresh buffer and decodes it with    *)
(* the types and byte order it was built with and any maximum.  `enc`      *)
(* holds the template arguments of the encode that built the buffer.       *)
(***************************************************************************)
\* element types of the arrays and vectors: one of each width
ElemTypes == {uint8_t, int16_t, uint32_t, int64_t}

\* element i (from 1) of the caller's source array of type T
SrcElem(T, i) ==
    CastToT(T, [j \in 1..NLimbs(T) |-> (40000 + 4099 * i + 257 * j) % LimbMod(T)])

\* the caller's source array of type T
SrcArr(T) == [i \in 1..MaxLen |-> SrcElem(T, i)]

\* TRUE iff the buffer was received, or built with these template arguments
Decodable(T, U, endianness) ==
    IF enc = NoCall
    THEN TRUE
    ELSE enc.T = T /\ enc.U = U /\ enc.endianness = endianness

\* what a destination element holds before a decode
Filler(T) == CastToT(T, [j \in 1..NLimbs(T) |-> 21845 % LimbMod(T)])

\* the value -1 of a signed type U
MinusOne(U) == [j \in 1..NLimbs(U) |-> IF j = NLimbs(U) THEN -1 ELSE 65535]

\* the counts n passed to encode_length_prefixed as a U
Counts(U) ==
    {FromNat(U, k) : k \in 0..MaxLen}
    \cup (IF U.signed THEN {MinusOne(U)} ELSE {})

\* fresh buffers
BlankBuffers == {Blank(BufLen, f) : f \in Fill}

\* bytes of a received count prefix
WireBytes == {0, 1, MaxLen, MaxLen + 1, 128, 255}

\* a received message: a prefix of w bytes f with byte b at offset p,
\* followed by payload bytes that differ from offset to offset
Wire(w, p, b, f) ==
    [k \in 1..BufLen |->
        IF k = p + 1 THEN b
        ELSE IF k <= w THEN f
        ELSE (37 * k + 11) % 256]

Wires ==
    {Wire(w, p, b, f) : w \in {1, 2, 4, 8}, p \in {0, 1, 3, 7}, b \in WireBytes,
                        f \in {0, 255}}

InitLP ==
    /\ buffer \in Wires \cup BlankBuffers
    /\ call = NoCall
    /\ enc = NoCall
    /\ fill = 0
    /\ maxw = 0
    /\ nenc = 0

\* encode_length_prefixed<T, U, endianness>(buffer, arr, n) into a fresh buffer
EncodeLengthPrefixed ==
    /\ call = NoCall
    /\ buffer \in BlankBuffers
    /\ \E T \in ElemTypes, U \in IntTypes, endianness \in endian :
       \E n \in Counts(U) :
         LET r == encode_length_prefixed(buffer, 0, T, U, endianness, SrcArr(T), n)
         IN /\ buffer' = r.buffer
            /\ call' = [op |-> "encode_length_prefixed", T |-> T, U |-> U,
                        endianness |-> endianness, n |-> n, arr |-> SrcArr(T),
                        before |-> buffer, ret |-> r.ret]
            /\ enc' = [T |-> call'.T, U |-> call'.U, endianness |-> call'.endianness,
                       n |-> call'.n, arr |-> call'.arr, ret |-> call'.ret,
                       next |-> NoCall]
    /\ UNCHANGED <<fill, maxw, nenc>>

\* decode_length_prefixed<T, U, endianness>(buffer, arr, max_arr_length) into
\* an array of max_arr_length elements
DecodeLengthPrefixed ==
    /\ call = NoCall
    /\ \E T \in ElemTypes, U \in IntTypes, endianness \in endian :
       \E m \in 0..MaxLen :
         /\ Decodable(T, U, endianness)
         /\ LET arr == [j \in 1..m |-> Filler(T)]
                r   == decode_length_prefixed(buffer, 0, T, U, endianness, arr,
                                              FromNat(U, m))
            IN call' = [op |-> "decode_length_prefixed", T |-> T, U |-> U,
                        endianness |-> endianness, max |-> FromNat(U, m),
                        before |-> arr] @@ r
    /\ UNCHANGED <<buffer, enc, fill, maxw, nenc>>

\* encode_length_prefixed(buffer, s) of a std::string s into a fresh buffer
EncodeString ==
    /\ call = NoCall
    /\ buffer \in BlankBuffers
    /\ \E k \in 0..MaxLen :
         LET s == SubSeq(SrcArr(char), 1, k)
             r == encode_length_prefixed_string(buffer, 0, s)
         IN /\ buffer' = r.buffer
            /\ call' = [op |-> "encode_string", T |-> char, U |-> size_t,
                        endianness |-> default_endianness,
                        n |-> FromNat(size_t, k), arr |-> s,
                        before |-> buffer, ret |-> r.ret]
            /\ enc' = [T |-> call'.T, U |-> call'.U, endianness |-> call'.endianness,
                       n |-> call'.n, arr |-> call'.arr, ret |-> call'.ret,
                       next |-> NoCall]
    /\ UNCHANGED <<fill, maxw, nenc>>

\* encode_length_prefixed(buffer, v) of a std::vector<T> v into a fresh buffer
EncodeVector ==
    /\ call = NoCall
    /\ buffer \in BlankBuffers
    /\ \E T \in ElemTypes : \E k \in 0..MaxLen :
         LET v == SubSeq(SrcArr(T), 1, k)
             r == encode_length_prefixed_vector(buffer, 0, T, v)
         IN /\ buffer' = r.buffer
            /\ call' = [op |-> "encode_vector", T |-> T, U |-> size_t,
                        endianness |-> default_endianness,
                        n |-> FromNat(size_t, k), arr |-> v,
                        before |-> buffer, ret |-> r.ret]
            /\ enc' = [T |-> call'.T, U |-> call'.U, endianness |-> call'.endianness,
                       n |-> call'.n, arr |-> call'.arr, ret |-> call'.ret,
                       next |-> NoCall]
    /\ UNCHANGED <<fill, maxw, nenc>>

\* what the destination container holds before a decode: nothing, or more
\* elements than any maximum
Dest(T) == {<<>>, [j \in 1..(MaxLen + 1) |-> Filler(T)]}

\* decode_length_prefixed(buffer, s, max_string_length) into a std::string s
DecodeString ==
    /\ call = NoCall
    /\ Decodable(char, size_t, default_endianness)
    /\ \E m \in 0..MaxLen : \E s \in Dest(char) :
         LET r == decode_length_prefixed_string(buffer, 0, s, m)
         IN call' = [op |-> "decode_string", T |-> char, U |-> size_t,
                     endianness |-> default_endianness,
                     max |-> FromNat(size_t, m), before |-> s] @@ r
    /\ UNCHANGED <<buffer, enc, fill, maxw, nenc>>

\* decode_length_prefixed(buffer, v, max_length) into a std::vector<T> v
DecodeVector ==
    /\ call = NoCall
    /\ \E T \in ElemTypes : \E m \in 0..MaxLen : \E v \in Dest(T) :
         /\ Decodable(T, size_t, default_endianness)
         /\ LET r == decode_length_prefixed_vector(buffer, 0, T, v, m)
            IN call' = [op |-> "decode_vector", T |-> T, U |-> size_t,
                        endianness |-> default_endianness,
                        max |-> FromNat(size_t, m), before |-> v] @@ r
    /\ UNCHANGED <<buffer, enc, fill, maxw, nenc>>

\* the template arguments of a second container, encoded behind the first
NextTypes == {[T |-> int16_t, U |-> uint8_t], [T |-> uint32_t, U |-> int16_t]}

\* the caller's source array of the second container
NextArr(T) == [i \in 1..MaxLen |-> SrcElem(T, i + MaxLen)]

\* encode_length_prefixed<T, U, endianness>(buffer + k, arr, n) of a second
\* container, k being the value the first encode returned; the caller has
\* checked that the buffer has room for it
EncodeNext ==
    /\ call = NoCall
    /\ enc # NoCall
    /\ enc.next = NoCall
    /\ ~IsNegative(enc.U, enc.n)
    /\ \E p \in NextTypes, endianness \in endian, k \in 0..MaxLen :
         /\ enc.ret + p.U.size + MaxLen * p.T.size <= BufLen
         /\ LET r == encode_length_prefixed(buffer, enc.ret, p.T, p.U, endianness,
                                            NextArr(p.T), FromNat(p.U, k))
            IN /\ buffer' = r.buffer
               /\ call' = [op |-> "encode_next", T |-> p.T, U |-> p.U,
                           endianness |-> endianness, n |-> FromNat(p.U, k),
                           arr |-> NextArr(p.T), off |-> enc.ret,
                           before |-> buffer, ret |-> r.ret]
               /\ enc' = [enc EXCEPT !.next =
                            [T |-> p.T, U |-> p.U, endianness |-> endianness,
                             n |-> call'.n, arr |-> call'.arr, ret |-> call'.ret]]
    /\ UNCHANGED <<fill, maxw, nenc>>

\* decode_length_prefixed<T, U, endianness>(buffer + k, arr, max_arr_length)
\* of the second container, k being the value the decode of the first
\* container has just returned
DecodeNext ==
    /\ call.op = "decode_length_prefixed"
    /\ call.ret >= 0
    /\ enc # NoCall
    /\ enc.next # NoCall
    /\ \E m \in 0..MaxLen :
         call' = [op |-> "decode_next", T |-> enc.next.T, U |-> enc.next.U,
                  endianness |-> enc.next.endianness,
                  max |-> FromNat(enc.next.U, m), off |-> call.ret,
                  before |-> [j \in 1..m |-> Filler(enc.next.T)]]
                 @@ decode_length_prefixed(buffer, call.ret, enc.next.T, enc.next.U,
                                           enc.next.endianness,
                                           [j \in 1..m |-> Filler(enc.next.T)],
                                           FromNat(enc.next.U, m))
    /\ UNCHANGED <<buffer, enc, fill, maxw, nenc>>

NextLP ==
    \/ EncodeLengthPrefixed
    \/ DecodeLengthPrefixed
    \/ EncodeString
    \/ EncodeVector
    \/ DecodeString
    \/ DecodeVector
    \/ EncodeNext
    \/ DecodeNext
    \/ Drop

SpecLP == InitLP /\ [][NextLP]_vars

(***************************************************************************)
(* Properties of the integer codec                                         *)
(***************************************************************************)
\* C1: integer round trip.  When decode_o(buffer, y) follows encode_o(buffer, x)
\* with the same byte order o and the same integer type, then y = x, for
\* every sampled x of each of the eight types (MIN, MAX and negative values
\* included).
IntRoundTrip ==
    (/\ call.op = "decode"
     /\ enc.op = "encode"
     /\ enc.order = call.order
     /\ enc.T = call.T)
    => call.value = enc.value

\* a negative int64_t has been encoded and decoded big-endian, and a MAX
\* value of a signed type little-endian
IntRoundTripWitness ==
    /\ call.op = "decode"
    /\ enc.op = "encode"
    /\ enc.order = call.order
    /\ enc.T = call.T
    /\ \/ call.T = int64_t /\ call.order = "big" /\ IsNegative(call.T, enc.value)
       \/ call.T = int32_t /\ call.order = "little" /\ enc.value = <<65535, 32767>>

\* bits [8j, 8j + 8) of the two's complement pattern of a value of type T
PatternByte(T, value, j) ==
    LET limb == value[(j \div 2) + 1]
        u    == IF limb < 0 THEN limb + LimbMod(T) ELSE limb
    IN IF j % 2 = 1 THEN u \div 256 ELSE u % 256

\* C2: byte layout.  After encode_be of an N-byte value buffer[k] holds bits
\* [8(N-k-1), 8(N-k)) of the value's two's complement pattern, after encode_le
\* bits [8k, 8k+8), for k in 0..N-1; the little-endian bytes are the
\* big-endian bytes reversed (the same byte for N = 1), and int32 0x7fabcdef
\* gives 7f ab cd ef big-endian and ef cd ab 7f little-endian.
ByteLayout ==
    call.op = "encode" =>
        LET N  == call.T.size
            be == encode_be(buffer, 0, call.T, call.value)
            le == encode_le(buffer, 0, call.T, call.value)
        IN /\ \A k \in 0..(N - 1) :
                buffer[k + 1] = PatternByte(call.T, call.value,
                                    IF call.order = "big" THEN N - k - 1 ELSE k)
           /\ \A k \in 0..(N - 1) : le[k + 1] = be[N - k]
           /\ (call.T = int32_t /\ call.value = <<52719, 32683>>) =>
                SubSeq(buffer, 1, 4) = IF call.order = "big"
                                       THEN <<127, 171, 205, 239>>
                                       ELSE <<239, 205, 171, 127>>

\* int32 0x7fabcdef has just been encoded big-endian
ByteLayoutWitness ==
    /\ call.op = "encode"
    /\ call.order = "big"
    /\ call.T = int32_t
    /\ call.value = <<52719, 32683>>
    /\ SubSeq(buffer, 1, 4) = <<127, 171, 205, 239>>

\* C3: non-overrun.  One encode_be / encode_le of an N-byte value changes no
\* buffer byte at an index >= N, and after any sequence of encodes at offset 0
\* every byte at an index >= the largest width used holds its initial value.
NonOverrun ==
    /\ [](\A k \in 1..Len(buffer) : k > maxw => buffer[k] = fill)
    /\ [][\A k \in 1..Len(buffer) :
            buffer'[k] # buffer[k] => (call'.op = "encode" /\ k <= call'.T.size)]_vars

\* a 1-byte encode after an 8-byte encode: bytes 1..7 keep the wider value,
\* the bytes from index 8 on the initial fill
NonOverrunWitness ==
    /\ call.op = "encode"
    /\ call.T.size = 1
    /\ maxw = 8
    /\ fill = 170
    /\ buffer[2] # fill
    /\ \A k \in 9..Len(buffer) : buffer[k] = fill


(***************************************************************************)
(* Properties of the container codec                                       *)
(***************************************************************************)
\* the integer of type T that the bytes buf[off] .. buf[off + sizeof(T) - 1]
\* spell in the given byte order, read off the bytes directly
WireValue(buf, off, T, endianness) ==
    LET N       == T.size
        byte(j) == IF endianness = "little" THEN buf[off + j + 1] ELSE buf[off + N - j]
        u(i)    == IF N = 1 THEN byte(0) ELSE byte(2 * i - 2) + 256 * byte(2 * i - 1)
    IN [i \in 1..NLimbs(T) |->
          IF T.signed /\ i = NLimbs(T) /\ u(i) >= LimbMod(T) \div 2
          THEN u(i) - LimbMod(T)
          ELSE u(i)]

\* a > b as integers, for two values of one type
Exceeds(a, b) ==
    \E i \in DOMAIN a : a[i] > b[i] /\ \A j \in DOMAIN a : j > i => a[j] = b[j]

\* the count that the prefix of the buffer spells for the last call
PrefixCount == WireValue(buffer, 0, call.U, call.endianness)

DecodeOps == {"decode_length_prefixed", "decode_string", "decode_vector"}

EncodeOps == {"encode_length_prefixed", "encode_string", "encode_vector"}

\* C4: length-prefix bound enforcement.  decode_length_prefixed(buffer, arr,
\* max) on a buffer whose prefix count is greater than max returns -1, has
\* written no element of arr (arr is as it was) and has read no buffer byte at
\* an offset >= sizeof(U).
LengthBound ==
    (call.op = "decode_length_prefixed" /\ Exceeds(PrefixCount, call.max)) =>
        /\ call.ret = -1
        /\ call.writes = {}
        /\ call.arr = call.before
        /\ \A o \in call.reads : o < call.U.size

\* a 4-byte unsigned count above the maximum has been refused, with an array
\* that had room for at least one element
LengthBoundWitness ==
    /\ call.op = "decode_length_prefixed"
    /\ call.U = uint32_t
    /\ Exceeds(PrefixCount, call.max)
    /\ Len(call.before) >= 1
    /\ call.ret = -1
    /\ call.reads = 0..3

\* C5: the -1 sentinel is unambiguous.  decode_length_prefixed returns -1 only
\* when the prefix count exceeds max; whenever count <= max it returns
\* sizeof(U) + count * sizeof(T), which is >= sizeof(U) and never -1.
SentinelUnambiguous ==
    call.op = "decode_length_prefixed" =>
        /\ call.ret = -1 => Exceeds(PrefixCount, call.max)
        /\ ~Exceeds(PrefixCount, call.max) =>
            /\ call.ret >= call.U.size
            /\ call.ret # -1
            /\ ~IsNegative(call.U, PrefixCount) =>
                 call.ret = call.U.size + PrefixCount[1] * call.T.size

\* C6: bounded writes on container decode.  In the pointer form and in the
\* string and vector wrappers every element write targets an index i with
\* 0 <= i < count <= max_length, so no write lands at or beyond index
\* max_length of the destination storage.
BoundedWrites ==
    call.op \in DecodeOps =>
        \A i \in call.writes :
            /\ i >= 0
            /\ Exceeds(PrefixCount, FromNat(call.U, i))
            /\ ~Exceeds(PrefixCount, call.max)
            /\ Exceeds(call.max, FromNat(call.U, i))

\* a vector of exactly max_length = MaxLen elements has been decoded: every
\* index below max_length was written
BoundedWritesWitness ==
    /\ call.op = "decode_vector"
    /\ call.max = FromNat(size_t, MaxLen)
    /\ PrefixCount = call.max
    /\ call.writes = 0..(MaxLen - 1)

\* C7: container wrapper failure is a no-op.  When the string or vector form
\* of decode_length_prefixed meets a prefix count greater than max_length it
\* returns -1 and the destination keeps the size and contents it had.
WrapperFailure ==
    (call.op \in {"decode_string", "decode_vector"}
     /\ Exceeds(PrefixCount, call.max)) =>
        /\ call.ret = -1
        /\ call.s = call.before

\* a string decode has been refused with a maximum >= 1 and a destination
\* that held MaxLen + 1 characters
WrapperFailureWitness ==
    /\ call.op = "decode_string"
    /\ Exceeds(PrefixCount, call.max)
    /\ Exceeds(call.max, FromNat(size_t, 0))
    /\ Len(call.before) = MaxLen + 1
    /\ call.ret = -1

EncodeLayout ==
    call.op \in EncodeOps =>
        LET T   == call.T
            U   == call.U
            cnt == IF IsNegative(U, call.n) THEN 0 ELSE call.n[1]
        IN /\ \A k \in 0..(U.size - 1) :
                buffer[k + 1] = encode(call.before, 0, U, call.endianness, call.n)[k + 1]
           /\ \A i \in 0..(cnt - 1) : \A k \in 0..(T.size - 1) :
                buffer[U.size + i * T.size + k + 1] =
                    encode(call.before, 0, T, call.endianness, call.arr[i + 1])[k + 1]
           /\ \A k \in (U.size + cnt * T.size)..(Len(buffer) - 1) :
                buffer[k + 1] = call.before[k + 1]
           /\ Len(buffer) = Len(call.before)

\* MaxLen int16_t elements have been encoded big-endian behind a 4-byte count
EncodeLayoutWitness ==
    /\ call.op = "encode_length_prefixed"
    /\ call.T = int16_t
    /\ call.U = uint32_t
    /\ call.endianness = "big"
    /\ call.n = FromNat(uint32_t, MaxLen)
    /\ buffer # call.before

\* C10: length-prefixed encode return value.  For every count n of the prefix
\* type U and every element type T the int returned by encode_length_prefixed
\* equals sizeof(U) + n * sizeof(T), the number of bytes it wrote: the prefix
\* and one element per iteration of its loop.
EncodeReturn ==
    call.op \in EncodeOps =>
        call.ret = call.U.size + Count(call.U, call.n) * call.T.size

RECURSIVE OffsetOf(_, _)
\* sum of sizeof(T_j) for j < i
OffsetOf(args, i) == IF i = 1 THEN 0 ELSE OffsetOf(args, i - 1) + args[i - 1].T.size

\* the single-value encoding of a in byte order `order`, as its bytes
Single(order, a) ==
    SubSeq(encode(Blank(a.T.size, 0), 0, a.T, order, a.value), 1, a.T.size)

\* C12: after a variadic encode_le / encode_be the i-th value occupies the
\* offsets [sum of the sizes before it, that sum + its size) with the bytes
\* of its single-value encoding, so the buffer starts with the concatenation
\* of the single-value encodings, and the bytes after them are untouched
VariadicLayout ==
    call.op = "encode_args" =>
        /\ \A i \in 1..Len(call.args) :
              SubSeq(buffer, OffsetOf(call.args, i) + 1,
                     OffsetOf(call.args, i) + call.args[i].T.size)
                  = Single(call.order, call.args[i])
        /\ \A k \in 1..Len(buffer) :
              k > OffsetOf(call.args, Len(call.args) + 1) =>
                  buffer[k] = call.before[k]

\* the test's tuple packed big-endian over another pack: 30 bytes
VariadicLayoutWitness ==
    /\ call.op = "encode_args"
    /\ call.order = "big"
    /\ call.args = TestTuple
    /\ nenc = 2
    /\ OffsetOf(call.args, 8) = 22
    /\ SubSeq(buffer, 23, 30) = <<255, 255, 255, 255, 116, 119, 129, 108>>

\* C13: unpacking with decode_le (decode_be) into references of the types
\* of the pack, in its order, the buffer the variadic encode_le (encode_be)
\* wrote, stores every value of the pack
VariadicRoundTrip ==
    (/\ call.op = "decode_args"
     /\ enc # NoCall
     /\ enc.order = call.order
     /\ call.types = TypesOf(enc.args)) =>
        call.values = ValuesOf(enc.args)

\* the test's tuple unpacked little-endian
VariadicRoundTripWitness ==
    /\ call.op = "decode_args"
    /\ enc # NoCall
    /\ enc.order = "little"
    /\ call.order = "little"
    /\ enc.args = TestTuple
    /\ call.values = ValuesOf(TestTuple)

(***************************************************************************)
(* Claims about the float codec                                            *)
(***************************************************************************)
\* a == b on two real values: zeros are equal whatever their sign, a NaN
\* is equal to nothing
RealEq(a, b) ==
    /\ a.kind # "nan"
    /\ b.kind # "nan"
    /\ \/ a.kind = "zero" /\ b.kind = "zero"
       \/ a = b

\* x is a nonzero normal value of the format
IsNormal(fmt, x) ==
    /\ x.kind = "finite"
    /\ x.exp >= 1 - Bias(fmt)
    /\ x.exp <= Bias(fmt)

\* the decode that follows an encode of the same type
FloatDecoded == call.op = "decode_float" /\ enc # NoCall /\ enc.op = "encode_float"
DoubleDecoded == call.op = "decode_double" /\ enc # NoCall /\ enc.op = "encode_double"

\* C15: decode_float gives back every nonzero normal float encode_float
\* wrote, and decode_double every nonzero normal double encode_double wrote
NormalRoundTrip ==
    /\ (FloatDecoded /\ IsNormal(binary32, enc.f)) => RealEq(call.f, enc.f)
    /\ (DoubleDecoded /\ IsNormal(binary64, enc.f)) => RealEq(call.f, enc.f)

\* -DBL_MIN encoded and decoded, with the 8 bytes of the buffer as IEEE 754
\* has them
NormalRoundTripWitness ==
    /\ DoubleDecoded
    /\ enc.f = Finite(1, -1022, NoFrac)
    /\ call.f = enc.f
    /\ SubSeq(buffer, 1, 8) = <<0, 0, 0, 0, 0, 0, 16, 128>>

\* C16: decode_float gives back every finite float encode_float wrote,
\* subnormals included, and decode_double every finite double (stated for
\* the nonzero values; zero is the subject of C17)
FiniteRoundTrip ==
    /\ (FloatDecoded /\ enc.f.kind = "finite") => RealEq(call.f, enc.f)
    /\ (DoubleDecoded /\ enc.f.kind = "finite") => RealEq(call.f, enc.f)

\* C17: decode_float on four zero bytes and decode_double on eight zero
\* bytes store 0.0, whatever the memory outside the buffer holds
ZeroRoundTrip ==
    /\ (call.op = "decode_float" /\ SubSeq(buffer, 1, 4) = <<0, 0, 0, 0>>)
            => call.f.kind = "zero"
    /\ (call.op = "decode_double"
            /\ SubSeq(buffer, 1, 8) = <<0, 0, 0, 0, 0, 0, 0, 0>>)
            => call.f.kind = "zero"

\* C18: every call of encode_float, encode_double, decode_float and
\* decode_double returns: a call that has entered pack754 or unpack754
\* eventually leaves its loops, whatever value or bit pattern it was given
Termination == (call.op \in {"pack754", "unpack754"}) ~> (call.op \notin {"pack754", "unpack754"})

(***************************************************************************)
(* Claims about the dispatcher                                             *)
(***************************************************************************)
\* the other byte order
Other(endianness) == IF endianness = "little" THEN "big" ELSE "little"

\* what the function the dispatcher is to call leaves in the buffer
RoutedEncode(buf, T, endianness, x) ==
    CASE is_integral(T) /\ endianness = "little" -> encode_le(buf, 0, T, x)
      [] is_integral(T) /\ endianness = "big" -> encode_be(buf, 0, T, x)
      [] is_float(T) -> encode_float(buf, 0, x)
      [] is_double(T) -> encode_double(buf, 0, x)

\* what the function the dispatcher is to call stores
RoutedDecode(buf, T, endianness, ind) ==
    CASE is_integral(T) /\ endianness = "little" -> decode_le(buf, 0, T)
      [] is_integral(T) /\ endianness = "big" -> decode_be(buf, 0, T)
      [] is_float(T) -> decode_float(buf, 0, ind)
      [] is_double(T) -> decode_double(buf, 0, ind)

\* C19: encode<T, e> / decode<T, e> do what encode_le / decode_le do for an
\* integral T and e = little, what encode_be / decode_be do for an integral
\* T and e = big, and what the float / double functions do for float /
\* double, for which both byte orders give the same bytes and values; in a
\* container of floats or doubles only the bytes of the count differ
\* between the byte orders
DispatchRouting ==
    /\ call.op = "encode" =>
        /\ buffer = RoutedEncode(call.before, call.T, call.endianness, call.value)
        /\ ~is_integral(call.T) =>
              buffer = encode(call.before, 0, call.T, Other(call.endianness),
                              call.value)
    /\ call.op = "decode" =>
        /\ call.value = RoutedDecode(buffer, call.T, call.endianness, call.ind)
        /\ ~is_integral(call.T) =>
              call.value = decode(buffer, 0, call.T, Other(call.endianness),
                                  call.ind)
    /\ call.op = "encode_length_prefixed" =>
        \A k \in 1..Len(buffer) :
            IF k <= call.U.size
            THEN buffer[k] = encode(call.before, 0, call.U, call.endianness,
                                    call.n)[k]
            ELSE buffer[k] = encode_length_prefixed(
                                 call.before, 0, call.T, call.U,
                                 Other(call.endianness), call.arr, call.n).buffer[k]

\* MaxLen floats behind a big-endian 16-bit count: the count is stored most
\* significant byte first, pi as the host stores it
DispatchRoutingWitness ==
    /\ call.op = "encode_length_prefixed"
    /\ call.T = float
    /\ call.U = uint16_t
    /\ call.endianness = "big"
    /\ call.n = <<MaxLen>>
    /\ SubSeq(buffer, 1, 6) = <<0, MaxLen, 219, 15, 73, 64>>
    /\ call.ret = 2 + 4 * MaxLen

(***************************************************************************)
(* Claims about all the single-value and variadic functions                *)
(***************************************************************************)
RECURSIVE SumOfSizes(_)
\* the sum of the sizes of a sequence of types
SumOfSizes(types) ==
    IF types = <<>> THEN 0 ELSE Head(types).size + SumOfSizes(Tail(types))

\* C14: a single-value encode_be / encode_le / decode_be / decode_le
\* returns sizeof(T), which is 1, 2, 4 or 8; encode_float and decode_float
\* return 4, encode_double and decode_double 8; a variadic encode or decode
\* returns the sum of the sizes of its arguments, 30 for the eight integer
\* types, the decode the same number as the encode of the same types
ByteCounts ==
    /\ call.op \in {"encode", "decode"} =>
          /\ call.ret = call.T.size
          /\ call.ret \in {1, 2, 4, 8}
    /\ call.op \in {"encode_float", "decode_float"} => call.ret = 4
    /\ call.op \in {"encode_double", "decode_double"} => call.ret = 8
    /\ call.op = "encode_args" =>
          /\ call.ret = SumOfSizes(TypesOf(call.args))
          /\ Len(call.args) = 8 => call.ret = 30
    /\ call.op = "decode_args" =>
          /\ call.ret = SumOfSizes(call.types)
          /\ Len(call.types) = 8 => call.ret = 30
          /\ (enc # NoCall /\ call.types = TypesOf(enc.args)) => call.ret = enc.ret

\* the test's tuple decoded: 30 bytes, as its encode returned
ByteCountsWitness ==
    /\ call.op = "decode_args"
    /\ enc # NoCall
    /\ enc.args = TestTuple
    /\ call.types = TypesOf(TestTuple)
    /\ call.ret = 30
    /\ enc.ret = 30

(***************************************************************************)
(* Claims about repeated encodes                                           *)
(***************************************************************************)
\* the last call is the first encode made again
Again ==
    /\ call.op = "encode_at"
    /\ enc # NoCall
    /\ nenc > 1
    /\ call.fn = enc.fn
    /\ call.T = enc.T
    /\ call.value = enc.value
    /\ call.off = enc.off

\* C20: encoding the same value with the same function at the same offset
\* again, after other calls that do not write its bytes, leaves the bytes
\* the first encode left; the bytes an encode writes are those the function
\* writes for this value at the start of any other buffer
Idempotence ==
    /\ Again => Region(buffer, enc.off, enc.T.size) = enc.bytes
    /\ call.op = "encode_at" =>
          Region(buffer, call.off, call.T.size)
              = Region(Applied(call, Blank(call.T.size, 85), 0), 0, call.T.size)

\* pi as a float encoded at offset 8 a second time, after an encode at
\* offset 0
IdempotenceWitness ==
    /\ Again
    /\ nenc = 3
    /\ call.fn = "encode_float"
    /\ call.off = 8
    /\ buffer[1] # fill
    /\ Region(buffer, 8, 4) = <<219, 15, 73, 64>>

(***************************************************************************)
(* Claims about the value an integer decode yields                         *)
(***************************************************************************)
\* C22: integer decode matches the two's-complement reference.  decode_le
\* and decode_be of any sizeof(T) buffer bytes yield, for an unsigned T, the
\* unsigned integer the bytes spell in the given order and, for a signed T,
\* that integer reinterpreted at the same width; a byte >= 128 below the top
\* byte leaves the higher-order bytes of the result as the buffer has them.
DecodeReference ==
    call.op = "decode" =>
        /\ call.value = WireValue(buffer, 0, call.T, call.order)
        /\ \A k \in 0..(call.T.size - 1) :
              PatternByte(call.T, call.value, k)
                  = (IF call.order = "little" THEN buffer[k + 1]
                     ELSE buffer[call.T.size - k])

\* a decode of a signed type of four or more bytes whose top byte is below
\* 128 and whose lowest byte is 128 or more: the value is positive
DecodeReferenceWitness ==
    /\ call.op = "decode"
    /\ call.T.signed
    /\ call.T.size >= 4
    /\ call.order = "big"
    /\ buffer[1] < 128
    /\ buffer[call.T.size] >= 128
    /\ call.value[NLimbs(call.T)] >= 0

(***************************************************************************)
(* Claims about the bit patterns of the float codec                        *)
(***************************************************************************)
\* C23: zero encodes to the all-zero pattern.  encode_float and
\* encode_double of +0.0 or -0.0 leave 4 resp. 8 zero bytes in the buffer,
\* and pack754 returns for a zero before any normalisation step: no call with
\* a zero argument is ever inside the loops of pack754.
ZeroPattern ==
    /\ (call.op \in {"encode_float", "encode_double"} /\ call.f.kind = "zero") =>
          /\ pack754(FormatOf(call.T), call.f) = Zero(uint64_t)
          /\ \A k \in 1..call.T.size : buffer[k] = 0
    /\ call.op = "pack754" => call.f.kind # "zero"

\* encode_double(buffer, -0.0) has returned, on a buffer that held no zero
\* byte
ZeroPatternWitness ==
    /\ call.op = "encode_double"
    /\ call.f = RealZero(1)
    /\ fill # 0
    /\ \A k \in 1..8 : buffer[k] = 0
    /\ buffer[9] = fill

\* C24: for every nonzero finite argument of encode_float (encode_double),
\* bit 31 (bit 63) of the emitted pattern, the top bit of buffer[3]
\* (buffer[7]), is 1 if and only if the argument is negative
SignBitOfArgument ==
    (call.op \in {"encode_float", "encode_double"} /\ call.f.kind = "finite") =>
        ((buffer[call.T.size] >= 128) <=> (call.f.sign = 1))

\* C28: decode_float is a function of the four buffer bytes alone: whatever
\* the upper half of the 8-byte local `i` held before the memcpy of four
\* bytes, the call stores the same f
DecodeFloatOfBytes ==
    call.op = "decode_float" =>
        \A ind \in Inds :
            ind.huge = call.ind.huge => decode_float(buffer, 0, ind) = call.f

WideValues ==
    { Finite(0, 0, <<0, 0, 128, 0>>),
      Finite(0, 0, <<0, 0, 384, 0>>),
      Finite(0, 0, <<1024, 0, 0, 0>>),
      Finite(0, 0, <<3072, 0, 0, 0>>),
      Finite(1, 0, <<65534, 65535, 65535, 65535>>) }

\* nonzero finite arguments of pack754 (a zero returns at once, before sign,
\* shift and significand are set)
PackValues ==
    {x \in FloatValues \cup DoubleValues \cup WideValues : x.kind = "finite"}

\* the locals of pack754<bits, expbits>(f) when it returns, its loops having
\* ended in state st
Packed(fmt, f, st) ==
    [op |-> "pack754", pc |-> "return", fmt |-> fmt, f |-> f, sign |-> f.sign,
     shift |-> st.shift, fnorm |-> st.fnorm,
     significand |-> Significand(fmt, st.fnorm),
     exp |-> st.shift + Bias(fmt),
     ret |-> PackResult(fmt, f.sign, st)]

\* exponent fields of the patterns given to unpack754
ExpFields(fmt) == 0..(Pow2(fmt.expbits) - 1)

\* bit patterns given to unpack754<32, 8> (bits above bit 31 may be set) and
\* to unpack754<64, 11>: every exponent field, both signs, significands 0,
\* 1, all ones and others; the pattern 0 is among them
Patterns(fmt) ==
    IF fmt = binary32
    THEN {<<lo, sign * 32768 + E * 128 + hi, up, 0>> :
             lo \in {0, 1, 65535}, hi \in {0, 127}, E \in ExpFields(fmt),
             sign \in {0, 1}, up \in {0, 1}}
    ELSE {<<lo, 0, 65535 * lo, sign * 32768 + E * 16 + hi>> :
             lo \in {0, 1}, hi \in {0, 15}, E \in ExpFields(fmt), sign \in {0, 1}}

InitPack ==
    /\ fill = 0
    /\ buffer = Blank(IntBufLen, fill)
    /\ call = NoCall
    /\ enc = NoCall
    /\ maxw = 0
    /\ nenc = 0

\* internal::pack754<32, 8>(f) or internal::pack754<64, 11>(f) runs to its
\* return statement
CallPack754 ==
    /\ call = NoCall
    /\ \E fmt \in {binary32, binary64} : \E f \in PackValues :
        call' = Packed(fmt, f, Doubled(Halved(PackStart(f))))
    /\ UNCHANGED <<buffer, enc, fill, maxw, nenc>>

\* internal::unpack754<32, 8>(i) or internal::unpack754<64, 11>(i) returns
CallUnpack754 ==
    /\ call = NoCall
    /\ \E fmt \in {binary32, binary64} : \E i \in Patterns(fmt) :
        call' = [op |-> "unpack754", pc |-> "return", fmt |-> fmt, i |-> i,
                 result |-> unpack754(fmt, i)]
    /\ UNCHANGED <<buffer, enc, fill, maxw, nenc>>

NextPack == CallPack754 \/ CallUnpack754 \/ Drop

SpecPack == InitPack /\ [][NextPack]_vars


(***************************************************************************)
(* Claims about the fields of pack754 and unpack754                        *)
(***************************************************************************)
\* x has no fraction bit below the s = bits - expbits - 1 bits of the format
FitsIn(fmt, x) == LowBits(x.frac, 64 - significandbits(fmt)) = NoFrac

\* the IEEE-754 pattern of the format for sign, biased exponent E and a
\* fraction given as 64 top-aligned bits of which the format keeps the
\* upper s: sign * 2^(bits-1) + E * 2^s + m, written out limb by limb
IeeePattern(fmt, sign, E, frac) ==
    IF fmt = binary32
    THEN <<(frac[4] % 512) * 128 + frac[3] \div 512,
           sign * 32768 + E * 128 + frac[4] \div 512,
           0, 0>>
    ELSE <<frac[1] \div 4096 + (frac[2] % 4096) * 16,
           frac[2] \div 4096 + (frac[3] % 4096) * 16,
           frac[3] \div 4096 + (frac[4] % 4096) * 16,
           sign * 32768 + E * 16 + frac[4] \div 4096>>

\* C25: canonical IEEE-754 fields on encode.  For a nonzero normal input
\* +/-(1 + m/2^s) * 2^e pack754<bits, expbits> returns the pattern whose top
\* bit is the sign, whose next expbits bits hold e + (2^(expbits-1) - 1) and
\* whose low s bits hold m: the binary32 pattern for <32, 8> and the
\* binary64 pattern for <64, 11>.
CanonicalFields ==
    (call.op = "pack754" /\ IsNormal(call.fmt, call.f) /\ FitsIn(call.fmt, call.f)) =>
        /\ call.exp = call.f.exp + Bias(call.fmt)
        /\ call.ret = IeeePattern(call.fmt, call.f.sign,
                                  call.f.exp + Bias(call.fmt), call.f.frac)

\* pack754<64, 11>(pi) has returned 0x400921FB54442D18
CanonicalFieldsWitness ==
    /\ call.op = "pack754"
    /\ IsNormal(call.fmt, call.f)
    /\ FitsIn(call.fmt, call.f)
    /\ call.fmt = binary64
    /\ call.f = Finite(0, 1, <<32768, 17105, 46404, 37407>>)
    /\ call.exp = 1024
    /\ call.ret = <<11544, 21572, 8699, 16393>>


\* the fields of a pattern, read off its limbs: sign = bit bits-1, exponent
\* = bits [s, s + expbits), and the significand = bits [0, s) as a 64-bit
\* top-aligned fraction significand / 2^s
FieldsOf(fmt, i) ==
    IF fmt = binary32
    THEN [sign     |-> (i[2] \div 32768) % 2,
          exponent |-> (i[2] \div 128) % 256,
          frac     |-> <<0, 0, (i[1] % 128) * 512,
                         (i[2] % 128) * 512 + i[1] \div 128>>]
    ELSE [sign     |-> (i[4] \div 32768) % 2,
          exponent |-> (i[4] \div 16) % 2048,
          frac     |-> <<(i[1] % 16) * 4096,
                         (i[2] % 16) * 4096 + i[1] \div 16,
                         (i[3] % 16) * 4096 + i[2] \div 16,
                         (i[4] % 16) * 4096 + i[3] \div 16>>]

\* (-1)^sign * (1 + significand/2^s) * 2^(exponent - bias)
ValueOfFields(fmt, fields) ==
    Finite(fields.sign, fields.exponent - (Pow2(fmt.expbits - 1) - 1), fields.frac)

\* C26: unpack formula.  For every nonzero bit pattern i,
\* unpack754<bits, expbits>(i) returns (-1)^sign * (1 + significand/2^s) *
\* 2^(exponent - bias) with significand = bits [0, s) of i, exponent = bits
\* [s, s + expbits) of i, sign = bit bits-1 of i and bias = 2^(expbits-1) - 1,
\* for every value of the exponent field from 0 to 2^expbits - 1.
UnpackFormula ==
    (call.op = "unpack754" /\ call.i # Zero(uint64_t)) =>
        call.result = ValueOfFields(call.fmt, FieldsOf(call.fmt, call.i))

\* unpack754<64, 11>(0xFFFFFFFF00000001), the exponent field all ones, has
\* returned -(2 - 2^-20 + 2^-52) * 2^1024
UnpackFormulaWitness ==
    /\ call.op = "unpack754"
    /\ call.fmt = binary64
    /\ call.i = <<1, 0, 65535, 65535>>
    /\ FieldsOf(call.fmt, call.i).exponent = 2047
    /\ call.result = Finite(1, 1024, <<4096, 0, 61440, 65535>>)


\* the dropped bits of fnorm - 1.0, those below the s bits of the format
Remainder(fmt, fnorm) == LowBits(fnorm.frac, 64 - significandbits(fmt))

\* half a unit of the last of the s bits
HalfUnit(fmt) == ShlBits(<<1, 0, 0, 0>>, 63 - significandbits(fmt))

\* C27: significand rounding.  The significand pack754 stores is the
\* normalised fraction f in [0, 1) times 2^s rounded to the nearest integer:
\* the product itself when it is an integer and otherwise the nearer of its
\* two neighbours (either of them when it lies half-way).
RoundedToNearest ==
    call.op = "pack754" =>
        \/ /\ call.significand = Significand(call.fmt, call.fnorm)
           /\ ~Exceeds(Remainder(call.fmt, call.fnorm), HalfUnit(call.fmt))
        \/ /\ call.significand
                = AddAt(Significand(call.fmt, call.fnorm), 1, 1).frac
           /\ ~Exceeds(HalfUnit(call.fmt), Remainder(call.fmt, call.fnorm))


\* f is an argument encode_float (for binary32) or encode_double (for
\* binary64) passes to pack754
EncoderArgument(fmt, f) ==
    IF fmt = binary32 THEN f \in FloatValues ELSE f \in DoubleValues

\* C30: field ranges in pack754.  For every nonzero finite argument of
\* encode_float / encode_double the biased exponent pack754 computes lies in
\* [0, 2^expbits - 1] and the significand in [0, 2^s - 1], so that the sign,
\* exponent and significand fields do not overlap and the result, sign *
\* 2^(bits-1) + exp * 2^s + significand, fits in `bits` bits.
FieldRanges ==
    (call.op = "pack754" /\ EncoderArgument(call.fmt, call.f)) =>
        /\ call.exp >= 0
        /\ call.exp <= Pow2(call.fmt.expbits) - 1
        /\ LowBits(call.significand, significandbits(call.fmt)) = call.significand
        /\ LowBits(call.ret, call.fmt.bits) = call.ret
        /\ ExpField(call.fmt, call.ret) = call.exp
        /\ SignBit(call.fmt, call.ret) = call.sign


(***************************************************************************)
(* Two callers at once, each on its own part of the buffer                 *)
(***************************************************************************)
Threads == {"a", "b"}

\* the other caller
Peer(t) == IF t = "a" THEN "b" ELSE "a"

\* two callers whose regions share four bytes
OffsetOfThreadOverlapping(t) == IF t = "a" THEN 0 ELSE 4

\* where the region of a caller begins: the callers pass pointers to
\* disjoint regions of sizeof(int64_t) bytes each
OffsetOfThread(t) == IF t = "a" THEN 0 ELSE SizeOf(int64_t)

ConBufLen == SizeOf(int64_t) + OffsetOfThread("b") + Slack

\* the bytes the callers' buffers hold at first
ConBuffer(f) == [k \in 1..ConBufLen |-> (f + 73 * k) % 256]

IntEncoders == {"encode_be", "encode_le"}

IntDecoders == {"decode_be", "decode_le"}

\* the byte the k-th assignment of encode_be / encode_le stores in buffer[k]
EncodedByte(fn, T, value, k) ==
    IF fn = "encode_be"
    THEN ShiftRightByte(T, value, 8 * T.size - 8 * (k + 1))
    ELSE ShiftRightByte(T, value, 8 * k)

\* val after the statements of decode_be / decode_le that read buffer[k] = b
Accumulated(fn, uT, val, b, k) ==
    IF k = 0 THEN Or(uT, val, Widen(uT, b))
    ELSE IF fn = "decode_be" THEN Or(uT, Shl(uT, val, 8), Widen(uT, b))
    ELSE Or(uT, val, Shl(uT, Widen(uT, b), 8 * k))

\* a caller that has not called yet
Idle == [pc |-> "idle"]

InitCon ==
    /\ fill = 170
    /\ buffer = ConBuffer(fill)
    /\ call = [t \in Threads |-> Idle]
    /\ enc = NoCall
    /\ maxw = 0
    /\ nenc = 0

\* caller t enters encode_be, encode_le (with a value x) or decode_be,
\* decode_le (with a variable holding x); a decoder sets uT val = 0.  `seen`
\* is how far the other caller's call has come at that moment.
CallInt(t) ==
    /\ call[t].pc = "idle"
    /\ \E fn \in IntEncoders \cup IntDecoders : \E T \in IntTypes :
       \E x \in (IF fn \in IntEncoders THEN Samples(T) ELSE {Filler(T)}) :
          call' = [call EXCEPT ![t] =
                     [pc |-> "running", fn |-> fn, T |-> T,
                      off |-> OffsetOfThread(t), k |-> 0, value |-> x,
                      val |-> Zero(make_unsigned_t(T)), ret |-> 0,
                      seen |-> IF call[Peer(t)].pc = "running"
                               THEN call[Peer(t)].k ELSE 0]]
    /\ nenc' = nenc + 1
    /\ UNCHANGED <<buffer, enc, fill, maxw>>

\* the next assignment buffer[k] = ... of caller t's encode
WriteByte(t) ==
    /\ call[t].pc = "running"
    /\ call[t].fn \in IntEncoders
    /\ call[t].k < call[t].T.size
    /\ buffer' = Store(buffer, call[t].off, call[t].k,
                       EncodedByte(call[t].fn, call[t].T, call[t].value, call[t].k))
    /\ call' = [call EXCEPT ![t].k = @ + 1]
    /\ UNCHANGED <<enc, fill, maxw, nenc>>

\* the next val |= ... buffer[k] ... of caller t's decode
ReadByte(t) ==
    /\ call[t].pc = "running"
    /\ call[t].fn \in IntDecoders
    /\ call[t].k < call[t].T.size
    /\ call' = [call EXCEPT
                  ![t].val = Accumulated(call[t].fn, make_unsigned_t(call[t].T), @,
                                         Load(buffer, call[t].off, call[t].k),
                                         call[t].k),
                  ![t].k = @ + 1]
    /\ UNCHANGED <<buffer, enc, fill, maxw, nenc>>

\* caller t's call returns sizeof(T); a decode first stores
\* static_cast<T>(val) in value
ReturnInt(t) ==
    /\ call[t].pc = "running"
    /\ call[t].k = call[t].T.size
    /\ call' = [call EXCEPT
                  ![t].pc = "returned",
                  ![t].value = IF call[t].fn \in IntDecoders
                               THEN CastToT(call[t].T, call[t].val) ELSE @,
                  ![t].ret = SizeOf(call[t].T)]
    /\ UNCHANGED <<buffer, enc, fill, maxw, nenc>>

NextCon ==
    \E t \in Threads : CallInt(t) \/ WriteByte(t) \/ ReadByte(t) \/ ReturnInt(t)

SpecCon == InitCon /\ [][NextCon]_vars

(***************************************************************************)
(* Claims about concurrent callers                                         *)
(***************************************************************************)
\* what the call of frame fr leaves in buf when it runs alone
AloneBuffer(buf, fr) ==
    CASE fr.fn = "encode_be" -> encode_be(buf, fr.off, fr.T, fr.value)
      [] fr.fn = "encode_le" -> encode_le(buf, fr.off, fr.T, fr.value)
      [] OTHER -> buf

\* what the decode of frame fr stores in its variable when it runs alone
AloneValue(buf, fr) ==
    IF fr.fn = "decode_be" THEN decode_be(buf, fr.off, fr.T)
    ELSE decode_le(buf, fr.off, fr.T)

\* C21: disjoint-buffer independence.  Two encode/decode calls whose byte
\* reads and writes are interleaved in any order, on disjoint buffer regions
\* and with their own variables, each leave the buffer bytes, the decoded
\* value and the return value that the call leaves when it runs alone.
DisjointIndependence ==
    /\ \A t \in Threads :
          call[t].pc = "returned" =>
             /\ call[t].ret = SizeOf(call[t].T)
             /\ Region(buffer, call[t].off, SizeOf(int64_t))
                   = Region(AloneBuffer(ConBuffer(fill), call[t]), call[t].off,
                            SizeOf(int64_t))
             /\ call[t].fn \in IntDecoders =>
                   call[t].value = AloneValue(ConBuffer(fill), call[t])
    /\ (\A t \in Threads : call[t].pc = "returned") =>
          buffer = AloneBuffer(AloneBuffer(ConBuffer(fill), call["a"]), call["b"])

\* an 8-byte encode of caller a has returned; it was entered when the
\* 8-byte decode of caller b had read some bytes, and that decode has read
\* more bytes since and is still running
DisjointIndependenceWitness ==
    /\ call["a"].pc = "returned"
    /\ call["a"].fn = "encode_be"
    /\ call["a"].T = int64_t
    /\ call["a"].seen >= 1
    /\ call["b"].pc = "running"
    /\ call["b"].fn = "decode_le"
    /\ call["b"].T = uint64_t
    /\ call["b"].k > call["a"].seen
    /\ call["b"].k < 8
    /\ Region(buffer, 0, 8) # Region(ConBuffer(fill), 0, 8)

=============================================================================
